---- MODULE Spec2Model ----
(***************************************************************************)
(* State-machine model of the iManage Deep Research MCP server:            *)
(*   - the service-account token cache        (auth.py, config.py)         *)
(*   - the user session store and OAuth state (auth.py, UserAuthManager)   *)
(*   - the combined document search           (search_service.py)          *)
(*   - the document fetch                     (document_service.py)        *)
(*   - the MCP handler                        (mcp_handlers.py, main.py)   *)
(*   - the OAuth endpoints                    (oauth_endpoints.py)         *)
(*   - the token resolution of a request      (auth.py)                    *)
(*   - the text extraction                    (document_processor.py)      *)
(* Each component has its own specification (SpecToken, SpecState,         *)
(* SpecSession, SpecRefresh, SpecSearch, SpecFetch, SpecMcp, SpecRelay,    *)
(* SpecResolve, SpecUserFetch) over the shared variables; it leaves the    *)
(* variables of the components it does not run unchanged.  SpecLogout,     *)
(* SpecSweep, SpecExtract and SpecExcel apply one function to every        *)
(* argument of a bounded set.                                              *)
(***************************************************************************)
EXTENDS Integers, Sequences, FiniteSets, TLC

\* ------------------------------------------------------------------------
\* Program constants
\* ------------------------------------------------------------------------
\* Python's None
None == "None"
\* the safety buffer subtracted from the provider's lifetime
BufferSeconds == 60
\* token_data.get("expires_in", 1800)
DefaultExpiresIn == 1800
\* lifetime of an OAuth state
StateTTL == 600

\* ------------------------------------------------------------------------
\* Bounds of the model
\* ------------------------------------------------------------------------
\* concurrent callers of get_token / get_user_token
NumCallers == 2
\* how often the wall clock advances in one behaviour
MaxTicks == 2
\* OAuth state tokens issued in one behaviour
NumStates == 2
\* distinct session ids
NumSessions == 1
\* the longest list of documents the upstream answers with, and the length
\* of its lists with a repeated id
MaxDocs == 12
DupDocs == 3
\* distinct document ids asked for
NumDocIds == 2
\* the largest id of a request
MaxRequestId == 1
\* session ids of a manager logout_user is called on by itself, and the
\* calls made on it
NumProbeKeys == 3
MaxProbeCalls == 2

Callers == 1..NumCallers


\* access tokens the identity provider hands out
Tokens == {"tokA", "tokB"}
\* "expires_in" of a token response; Absent: the key is missing
Absent == -1
ExpiresIns == {BufferSeconds, BufferSeconds + 1, Absent}

VARIABLES
    now,            \* time.time()
    ticks,          \* number of clock advances so far
    token_cache,    \* config.token_cache: [token, expires]
    gt,             \* per caller: the get_token coroutine
    oauth_states,   \* UserAuthManager.oauth_states: state token -> entry
    issued,         \* state tokens generate_oauth_state has returned so far
    consumed,       \* issued state tokens validate_oauth_state was called on
    heap,           \* the UserSession objects
    user_sessions,  \* UserAuthManager.user_sessions: session id -> object
    ex,             \* the authenticate_with_oauth_code coroutine
    gut,            \* per caller: the get_user_token coroutine
    search,         \* the perform_combined_search coroutine
    fetch,          \* the fetch_document_content coroutine
    mcp,            \* the MCP handler of one request
    relay,          \* the OAuth endpoints: relay entries and responses
    resolve,        \* the get_authenticated_token coroutine
    probe           \* a function called on its own: arguments and result

clockVars == <<now, ticks>>
tokenVars == <<token_cache, gt>>
userVars == <<oauth_states, issued, consumed, heap, user_sessions,
              ex, gut>>
handlerVars == <<mcp, relay, resolve, probe>>
ioVars == <<search, fetch, mcp, relay, resolve, probe>>
vars == <<now, ticks, token_cache, gt, oauth_states, issued, consumed, heap,
          user_sessions, ex, gut, search, fetch, mcp, relay, resolve, probe>>

\* ------------------------------------------------------------------------
\* The wall clock
\* ------------------------------------------------------------------------
\* time.time() advances by d between two steps of the program
Advance(d) ==
    /\ ticks < MaxTicks
    /\ now' = now + d
    /\ ticks' = ticks + 1
    /\ UNCHANGED <<tokenVars, userVars, ioVars>>

\* a second passes
Tick == Advance(1)
\* the lifetime of an OAuth state passes
TickTTL == Advance(StateTTL)

\* ------------------------------------------------------------------------
\* Service account token cache: config.py, auth.get_token
\* ------------------------------------------------------------------------
\* responses of the identity provider to the password-grant POST
AuthResponses ==
    [kind : {"ok"}, token : Tokens, expires_in : ExpiresIns]
    \cup [kind : {"http_error", "transport_error", "no_access_token"},
          token : {None}, expires_in : {Absent}]
    \cup [kind : {"bad_expires_in"}, token : Tokens, expires_in : {Absent}]

\* token_data.get("expires_in", 1800)
ExpiresInOrDefault(e) == IF e = Absent THEN DefaultExpiresIn ELSE e

\* a cache test that would still accept a token at its expiry time
CacheHitLate(cache, t) == cache.token /= None /\ cache.expires >= t
\* auth.py:24  cache["token"] and cache["expires"] > time.time()
CacheHit(cache, t) == cache.token /= None /\ cache.expires > t

\* a cache entry without the safety buffer
update_token_cache_unbuffered(token, expires_in, t) ==
    [token |-> token, expires |-> t + expires_in]

\* config.update_token_cache
update_token_cache(token, expires_in, t) ==
    [token |-> token, expires |-> t + expires_in - BufferSeconds]

\* resp: the provider's response the coroutine has received; at: the time
\* at which it received it
NoAuthResponse == [kind |-> None, token |-> None, expires_in |-> Absent]
GtIdle == [pc |-> "idle", posts |-> 0, ret |-> None, status |-> 0,
           resp |-> NoAuthResponse, at |-> 0]

\* a failed attempt that would drop the cached token
FailedCacheCleared(cache, r) == [token |-> None, expires |-> 0]

\* the cache a failed attempt leaves: update_token_cache stores the token
\* before the arithmetic on a non-numeric expires_in raises; the other
\* failures raise before update_token_cache is called
FailedCache(cache, r) ==
    IF r.kind = "bad_expires_in"
    THEN [cache EXCEPT !.token = r.token]
    ELSE cache

\* get_token up to its first suspension: the cache test, and on a miss the
\* password-grant POST is sent and the coroutine awaits the response
get_token_call(c) ==
    /\ gt[c].pc = "idle"
    /\ IF CacheHit(token_cache, now)
       THEN gt' = [gt EXCEPT ![c] = [GtIdle EXCEPT
                        !.pc = "returned", !.ret = token_cache.token,
                        !.status = 200]]
       ELSE gt' = [gt EXCEPT ![c] = [GtIdle EXCEPT
                        !.pc = "await_post", !.posts = 1]]
    /\ UNCHANGED <<token_cache, clockVars, userVars, ioVars>>

\* a resumption that would store the expiry only into an empty cache
get_token_resume_keep_expiry(c) ==
    /\ gt[c].pc = "await_post"
    /\ \E r \in {r \in AuthResponses : r.kind = "ok"} :
        /\ token_cache' =
              [token |-> r.token,
               expires |-> IF token_cache.token = None
                           THEN now + ExpiresInOrDefault(r.expires_in)
                                    - BufferSeconds
                           ELSE token_cache.expires]
        /\ gt' = [gt EXCEPT ![c].pc = "returned", ![c].ret = r.token,
                            ![c].status = 200, ![c].resp = r, ![c].at = now]
    /\ UNCHANGED <<clockVars, userVars, ioVars>>

\* the provider's response arrives: auth.py:41-50
get_token_resume(c) ==
    /\ gt[c].pc = "await_post"
    /\ \E r \in AuthResponses :
         CASE r.kind = "ok" ->
                /\ token_cache' = update_token_cache(r.token,
                                      ExpiresInOrDefault(r.expires_in), now)
                /\ gt' = [gt EXCEPT ![c].pc = "returned", ![c].ret = r.token,
                                    ![c].status = 200, ![c].resp = r,
                                    ![c].at = now]
           [] OTHER ->
                /\ token_cache' = FailedCache(token_cache, r)
                /\ gt' = [gt EXCEPT ![c].pc = "raised", ![c].status = 401,
                                    ![c].resp = r, ![c].at = now]
    /\ UNCHANGED <<clockVars, userVars, ioVars>>

\* the caller takes the result; the coroutine object is gone
get_token_done(c) ==
    /\ gt[c].pc \in {"returned", "raised"}
    /\ gt' = [gt EXCEPT ![c] = GtIdle]
    /\ UNCHANGED <<token_cache, clockVars, userVars, ioVars>>


\* ------------------------------------------------------------------------
\* User session store: auth.UserAuthManager
\* ------------------------------------------------------------------------
\* secrets.token_urlsafe(32): 256 random bits, taken never to repeat; a state
\* token is an index, and generate_oauth_state returns one not returned before
StateTokens == 1..NumStates
\* the session ids callers pass in
SessionIds == 1..NumSessions
\* names of the UserSession objects: the store holds at most one per session
\* id, every suspended get_user_token holds at most one more, and a new
\* object exists before the one it replaces is dropped
ObjIds == 1..(NumSessions + NumCallers + 1)

NoEntry == [session_id |-> 0, expires_at |-> 0]
NoObj == [access_token |-> None, refresh_token |-> None, expires_at |-> 0]

\* "expires_in" of the responses to the user grants
UserExpiresIns == {BufferSeconds, Absent}

\* successful responses to the authorization-code grant
CodeGrants ==
    [kind : {"ok"}, token : {"tokA"}, refresh_token : {None, "rtA"},
     expires_in : UserExpiresIns]
\* responses to the authorization-code grant
CodeResponses ==
    CodeGrants
    \cup [kind : {"error"}, token : {None}, refresh_token : {None},
          expires_in : {Absent}]

\* responses to the refresh-token grant; "absent": no refresh_token key
RefreshResponses ==
    [kind : {"ok"}, token : Tokens, refresh_token : {"absent", "rtB"},
     expires_in : UserExpiresIns]
    \cup [kind : {"error"}, token : {None}, refresh_token : {"absent"},
          expires_in : {Absent}]

\* a UserSession object lives while the store or a suspended coroutine
\* refers to it
Referenced(obj, sessions, coroutines) ==
    \/ \E sid \in SessionIds : sessions[sid] = obj
    \/ \E c \in Callers : coroutines[c].pc = "await_refresh"
                           /\ coroutines[c].obj = obj
Live(sessions, coroutines) ==
    {obj \in ObjIds : Referenced(obj, sessions, coroutines)}
SetMin(S) == CHOOSE x \in S : \A y \in S : x <= y
\* Object names carry no meaning: the live objects are named 1, 2, ... in the
\* order in which the store (by session id) and then the suspended coroutines
\* (by caller) refer to them.
ScanKey(obj, sessions, coroutines) ==
    IF \E sid \in SessionIds : sessions[sid] = obj
    THEN SetMin({sid \in SessionIds : sessions[sid] = obj})
    ELSE NumSessions + SetMin({c \in Callers :
                                 /\ coroutines[c].pc = "await_refresh"
                                 /\ coroutines[c].obj = obj})
\* the store, the coroutines and the objects after a step: unreferenced
\* objects are dropped, the others named as above
Install(objects, sessions, coroutines) ==
    \E ss \in {sessions} : \E cs \in {coroutines} : \E os \in {objects} :
    \E live \in {Live(ss, cs)} :
    \E key \in {[obj \in live |-> ScanKey(obj, ss, cs)]} :
    \E rank \in {[obj \in live |->
                    Cardinality({p \in live : key[p] <= key[obj]})]} :
    \E named \in {[k \in 1..Cardinality(live) |->
                    CHOOSE obj \in live : rank[obj] = k]} :
        /\ user_sessions' = [sid \in SessionIds |->
                IF ss[sid] = 0 THEN 0 ELSE rank[ss[sid]]]
        /\ gut' = [c \in Callers |->
                IF cs[c].pc = "await_refresh"
                THEN [cs[c] EXCEPT !.obj = rank[cs[c].obj]]
                ELSE cs[c]]
        /\ heap' = [k \in ObjIds |->
                IF k <= Cardinality(live) THEN os[named[k]] ELSE NoObj]
\* removed, a field of a get_user_token coroutine: while the coroutine was
\* suspended, logout_user or cleanup_expired_sessions removed the session
\* it refreshes, and no authentication has stored one under that id since
SessionsRemoved(coroutines, sids) ==
    [c \in Callers |->
        IF coroutines[c].pc = "await_refresh" /\ coroutines[c].sid \in sids
        THEN [coroutines[c] EXCEPT !.removed = TRUE]
        ELSE coroutines[c]]
SessionStored(coroutines, sid) ==
    [c \in Callers |->
        IF coroutines[c].sid = sid
        THEN [coroutines[c] EXCEPT !.removed = FALSE]
        ELSE coroutines[c]]

\* the name a new object gets
NewObj == CHOOSE obj \in ObjIds : heap[obj] = NoObj

\* auth.py:170-177: the UserSession built from a token response
UserSession(r, t) ==
    [access_token |-> r.token,
     refresh_token |-> r.refresh_token,
     expires_at |-> t + ExpiresInOrDefault(r.expires_in) - BufferSeconds]

\* auth.py:179 (and 130): self.user_sessions[session_id] = user_session
store_session(sid, session) ==
    Install([heap EXCEPT ![NewObj] = session],
            [user_sessions EXCEPT ![sid] = NewObj], SessionStored(gut, sid))

\* auth.py:71-79
generate_oauth_state(session_id) ==
    /\ \E state \in StateTokens \ issued :
         /\ oauth_states' = [oauth_states EXCEPT ![state] =
                [session_id |-> session_id, expires_at |-> now + StateTTL]]
         /\ issued' = issued \cup {state}
    /\ UNCHANGED <<consumed, heap, user_sessions, ex, gut>>
    /\ UNCHANGED <<clockVars, tokenVars, ioVars>>

\* a validation that would not look at the expiry
ValidateResultNoExpiry(states, state, t) ==
    IF states[state] = NoEntry THEN 0 ELSE states[state].session_id

\* a validation that would reject a state at its expiry time
ValidateResultBeforeExpiry(states, state, t) ==
    IF states[state] = NoEntry THEN 0
    ELSE IF t >= states[state].expires_at THEN 0
    ELSE states[state].session_id

\* auth.py:81-93: the value validate_oauth_state returns (0: None)
ValidateResult(states, state, t) ==
    IF states[state] = NoEntry THEN 0
    ELSE IF t > states[state].expires_at THEN 0
    ELSE states[state].session_id

\* a validation that would keep the entry
ValidateStatesKeep(states, state) == states
\* auth.py:81-93: the state map validate_oauth_state leaves
ValidateStates(states, state) == [states EXCEPT ![state] = NoEntry]

\* a direct call of validate_oauth_state
validate_oauth_state(state) ==
    /\ oauth_states' = ValidateStates(oauth_states, state)
    /\ consumed' = consumed \cup ({state} \cap issued)
    /\ UNCHANGED <<issued, heap, user_sessions, ex, gut>>
    /\ UNCHANGED <<clockVars, tokenVars, ioVars>>

ExIdle == [pc |-> "idle", state |-> 0, sid |-> 0, again |-> FALSE,
           status |-> 0, detail |-> None]

\* authenticate_with_oauth_code up to its first suspension (auth.py:139-161)
authenticate_with_oauth_code_call(state) ==
    /\ ex.pc = "idle"
    /\ LET sid == ValidateResult(oauth_states, state, now) IN
         ex' = IF sid = 0
               THEN [pc |-> "raised", state |-> state, sid |-> 0,
                     again |-> state \in consumed,
                     status |-> 400, detail |-> "invalid_state"]
               ELSE [pc |-> "await_token", state |-> state, sid |-> sid,
                     again |-> state \in consumed,
                     status |-> 0, detail |-> None]
    /\ oauth_states' = ValidateStates(oauth_states, state)
    /\ consumed' = consumed \cup ({state} \cap issued)
    /\ UNCHANGED <<issued, heap, user_sessions, gut>>
    /\ UNCHANGED <<clockVars, tokenVars, ioVars>>

\* a rejected grant that would put the state back for another attempt
authenticate_with_oauth_code_resume_retry ==
    /\ ex.pc = "await_token"
    /\ ex' = [ex EXCEPT !.pc = "raised", !.status = 401,
                        !.detail = "oauth_failed"]
    /\ oauth_states' = [oauth_states EXCEPT ![ex.state] =
                           [session_id |-> ex.sid,
                            expires_at |-> now + StateTTL]]
    /\ UNCHANGED <<issued, consumed, heap, user_sessions, gut>>
    /\ UNCHANGED <<clockVars, tokenVars, ioVars>>

\* the provider answers the authorization-code grant (auth.py:161-186)
authenticate_with_oauth_code_resume ==
    /\ ex.pc = "await_token"
    /\ \E r \in CodeResponses :
         IF r.kind = "ok"
         THEN /\ store_session(ex.sid, UserSession(r, now))
              /\ ex' = [ex EXCEPT !.pc = "returned", !.status = 200]
         ELSE /\ ex' = [ex EXCEPT !.pc = "raised", !.status = 401,
                                  !.detail = "oauth_failed"]
              /\ UNCHANGED <<heap, user_sessions, gut>>
    /\ UNCHANGED <<oauth_states, issued, consumed>>
    /\ UNCHANGED <<clockVars, tokenVars, ioVars>>

authenticate_with_oauth_code_done ==
    /\ ex.pc \in {"returned", "raised"}
    /\ ex' = ExIdle
    /\ UNCHANGED <<oauth_states, issued, consumed, heap, user_sessions, gut>>
    /\ UNCHANGED <<clockVars, tokenVars, ioVars>>

\* a user authentication completes and stores its session under sid: the
\* last, synchronous part of authenticate_with_oauth_code (auth.py:170-182)
session_stored(sid) ==
    /\ \E r \in CodeGrants : store_session(sid, UserSession(r, now))
    /\ UNCHANGED <<oauth_states, issued, consumed, ex>>
    /\ UNCHANGED <<clockVars, tokenVars, ioVars>>

NoResponse == [kind |-> None, token |-> None, refresh_token |-> "absent",
               expires_in |-> Absent]
GutIdle == [pc |-> "idle", sid |-> 0, obj |-> 0, posts |-> 0,
            resp |-> NoResponse, ret |-> None, status |-> 0, detail |-> None,
            removed |-> FALSE]

\* auth.py:196  time.time() < session.expires_at
TokenStillValid(session, t) == t < session.expires_at

\* get_user_token up to its first suspension (auth.py:188-203, 211-212)
get_user_token_call(c, sid) ==
    /\ gut[c].pc = "idle"
    /\ LET obj == user_sessions[sid] IN
       IF obj = 0
       THEN Install(heap, user_sessions,
                [gut EXCEPT ![c] = [GutIdle EXCEPT !.pc = "raised",
                        !.sid = sid, !.status = 401,
                        !.detail = "not_authenticated"]])
       ELSE IF TokenStillValid(heap[obj], now)
       THEN Install(heap, user_sessions,
                [gut EXCEPT ![c] = [GutIdle EXCEPT !.pc = "returned",
                        !.sid = sid, !.status = 200,
                        !.ret = heap[obj].access_token]])
       ELSE IF heap[obj].refresh_token /= None
       THEN Install(heap, user_sessions,
                [gut EXCEPT ![c] = [GutIdle EXCEPT !.pc = "await_refresh",
                        !.sid = sid, !.obj = obj, !.posts = 1]])
       ELSE Install(heap, [user_sessions EXCEPT ![sid] = 0],
                [gut EXCEPT ![c] = [GutIdle EXCEPT !.pc = "raised",
                        !.sid = sid, !.status = 401,
                        !.detail = "session_expired"]])
    /\ UNCHANGED <<oauth_states, issued, consumed, ex>>
    /\ UNCHANGED <<clockVars, tokenVars, ioVars>>

\* a refresh that would keep the old tokens
refresh_user_token_stale(session, r, t) ==
    [session EXCEPT !.expires_at =
                        t + ExpiresInOrDefault(r.expires_in) - BufferSeconds]

\* auth.py:232-237: _refresh_user_token updates the session object in place
refresh_user_token(session, r, t) ==
    [access_token |-> r.token,
     refresh_token |-> IF r.refresh_token = "absent"
                       THEN session.refresh_token ELSE r.refresh_token,
     expires_at |-> t + ExpiresInOrDefault(r.expires_in) - BufferSeconds]

\* the provider answers the refresh-token grant (auth.py:203-212, 228-237)
get_user_token_resume(c) ==
    /\ gut[c].pc = "await_refresh"
    /\ \E r \in RefreshResponses :
         LET sid == gut[c].sid
             obj == gut[c].obj IN
         IF r.kind = "ok"
         THEN Install([heap EXCEPT ![obj] =
                          refresh_user_token(heap[obj], r, now)],
                      [user_sessions EXCEPT ![sid] = obj],
                      [gut EXCEPT ![c].pc = "returned", ![c].resp = r,
                              ![c].obj = 0,
                              ![c].status = 200, ![c].ret = r.token])
         ELSE IF user_sessions[sid] /= 0
         THEN Install(heap, [user_sessions EXCEPT ![sid] = 0],
                      [gut EXCEPT ![c].pc = "raised", ![c].resp = r,
                              ![c].obj = 0, ![c].status = 401,
                              ![c].detail = "session_expired"])
         ELSE \* del self.user_sessions[session_id] on a missing key
              Install(heap, user_sessions,
                      [gut EXCEPT ![c].pc = "raised", ![c].resp = r,
                              ![c].obj = 0, ![c].status = 500,
                              ![c].detail = "KeyError"])
    /\ UNCHANGED <<oauth_states, issued, consumed, ex>>
    /\ UNCHANGED <<clockVars, tokenVars, ioVars>>

get_user_token_done(c) ==
    /\ gut[c].pc \in {"returned", "raised"}
    /\ gut' = [gut EXCEPT ![c] = GutIdle]
    /\ UNCHANGED <<oauth_states, issued, consumed, heap, user_sessions, ex>>
    /\ UNCHANGED <<clockVars, tokenVars, ioVars>>

\* a logout that would drop every session
LogoutUserAll(manager, session_id) ==
    [manager |-> [manager EXCEPT !.user_sessions =
                                     [k \in DOMAIN @ |-> 0]],
     ret |-> manager.user_sessions[session_id] /= 0]

\* auth.py:277-284 on a manager [user_sessions, oauth_states]: the manager
\* logout_user leaves and the value it returns
LogoutUser(manager, session_id) ==
    IF manager.user_sessions[session_id] /= 0
    THEN [manager |-> [manager EXCEPT !.user_sessions[session_id] = 0],
          ret |-> TRUE]
    ELSE [manager |-> manager, ret |-> FALSE]

\* auth.py:277-284
logout_user(sid) ==
    /\ \E out \in {LogoutUser([user_sessions |-> user_sessions,
                               oauth_states |-> oauth_states], sid)} :
         /\ Install(heap, out.manager.user_sessions,
                    SessionsRemoved(gut, IF out.ret THEN {sid} ELSE {}))
         /\ oauth_states' = out.manager.oauth_states
    /\ UNCHANGED <<issued, consumed, ex>>
    /\ UNCHANGED <<clockVars, tokenVars, ioVars>>

\* oauth_endpoints.py:41-46: the entry oauth_authorize keeps in oauth_states
\* under the session id it generates; it has no "session_id"
NoRelayEntry == [redirect_uri |-> None, state |-> None, expires_at |-> 0]

\* the entries a sweep of oauth_states leaves among those of oauth_authorize
SweepRelay(entries, t) ==
    [sid \in SessionIds |->
        IF entries[sid] /= NoRelayEntry /\ t > entries[sid].expires_at
        THEN NoRelayEntry ELSE entries[sid]]

\* user_sessions as a map from session ids to the sessions; NoObj: no key
StoredSessions ==
    [sid \in SessionIds |->
        IF user_sessions[sid] = 0 THEN NoObj ELSE heap[user_sessions[sid]]]

\* a sweep that would take a session at its expiry time
ExpiredSessionsAtExpiry(sessions, t) ==
    {sid \in DOMAIN sessions :
        sessions[sid] /= NoObj /\ t >= sessions[sid].expires_at}

\* auth.py:294-297: expired_sessions
ExpiredSessions(sessions, t) ==
    {sid \in DOMAIN sessions :
        sessions[sid] /= NoObj /\ t > sessions[sid].expires_at}

\* auth.py:305-309: expired_states
ExpiredStates(states, t) ==
    {state \in DOMAIN states :
        states[state] /= NoEntry /\ t > states[state].expires_at}

\* auth.py:292-312 on a manager [user_sessions, oauth_states] whose maps
\* hold the sessions and the entries themselves
CleanupExpiredSessions(manager, t) ==
    [user_sessions |->
        [sid \in DOMAIN manager.user_sessions |->
            IF sid \in ExpiredSessions(manager.user_sessions, t)
            THEN NoObj ELSE manager.user_sessions[sid]],
     oauth_states |->
        [state \in DOMAIN manager.oauth_states |->
            IF state \in ExpiredStates(manager.oauth_states, t)
            THEN NoEntry ELSE manager.oauth_states[state]]]

\* auth.py:292-312
cleanup_expired_sessions ==
    /\ Install(heap,
               [sid \in SessionIds |->
                  IF sid \in ExpiredSessions(StoredSessions, now)
                  THEN 0 ELSE user_sessions[sid]],
               SessionsRemoved(gut, ExpiredSessions(StoredSessions, now)))
    /\ oauth_states' =
          CleanupExpiredSessions([user_sessions |-> StoredSessions,
                                  oauth_states |-> oauth_states],
                                 now).oauth_states
    /\ relay' = [relay EXCEPT !.entries = SweepRelay(@, now)]
    /\ UNCHANGED <<issued, consumed, ex>>
    /\ UNCHANGED <<clockVars, tokenVars, search, fetch, mcp, resolve,
                   probe>>

\* ------------------------------------------------------------------------
\* search_service.py: the combined search
\* ------------------------------------------------------------------------

\* perform_combined_search's limit_per_type, the limit of its fallback
\* pass and the cap of its result
LimitPerType == 10
FallbackLimit == 20
MaxTotal == 20

\* the GET parameter of each shape of search_documents_simple, in the order
\* of params_options, and the filters of the bodies of
\* search_documents_keyword, in the order of search_body_options
params_options == <<"name", "anywhere", "title", "body", "q">>
search_body_options == <<"anywhere", "anywhere", "anywhere", "body">>

\* the document ids of an upstream answer: n documents with the ids
\* off, off + 1, ..., repeating after m of them
MkDocs(n, off, m) == [i \in 1..n |-> off + ((i - 1) % m)]
DocLists ==
    {MkDocs(n, off, m) : n \in {0, DupDocs, MaxDocs},
                         off \in {1, MaxDocs - 2, MaxDocs + 1},
                         m \in {DupDocs - 1, MaxDocs}}

\* what the upstream answers to a search request: status 0 stands for a
\* request that raised (timeout, connection error); parsed tells whether
\* the body is the JSON the code expects
HttpResponses ==
    [status : {200}, parsed : {TRUE}, docs : DocLists]
        \cup [status : {200, 400, 500, 0}, parsed : {FALSE}, docs : {<<>>}]

\* what the provider answers to the password grant of a search
SearchAuthResponses ==
    {r \in AuthResponses :
        /\ r.token \in {None, "tokB"}
        /\ r.kind \in {"ok", "http_error"}
        /\ r.expires_in \in {BufferSeconds, Absent}}

\* get_token as one step of a coroutine that no other one interleaves with:
\* the cache it leaves, whether it returned, and its POSTs
GetTokenOutcome(cache, t, r) ==
    IF CacheHit(cache, t)
    THEN [cache |-> cache, returned |-> TRUE, posts |-> 0]
    ELSE CASE r.kind = "ok" ->
                [cache |-> update_token_cache(r.token,
                               ExpiresInOrDefault(r.expires_in), t),
                 returned |-> TRUE, posts |-> 1]
           [] r.kind = "bad_expires_in" ->
                [cache |-> [cache EXCEPT !.token = r.token],
                 returned |-> FALSE, posts |-> 1]
           [] OTHER ->
                [cache |-> cache, returned |-> FALSE, posts |-> 1]

\* a SearchResult: idx tells which document of the upstream answer it was
\* built from
SearchResult(doc_id, idx, search_type) ==
    [id |-> doc_id, idx |-> idx, search_type |-> search_type]

Results(docs, search_type) ==
    [i \in 1..Len(docs) |-> SearchResult(docs[i], i, search_type)]

Take(seq, n) == SubSeq(seq, 1, IF n < Len(seq) THEN n ELSE Len(seq))

\* all_results is a dict keyed by id, here the sequence of its values in
\* insertion order
HasId(all, doc_id) == \E i \in 1..Len(all) : all[i].id = doc_id

\* all_results[result.id] = result: a key already there keeps its place
DictSet(all, result) ==
    IF HasId(all, result.id)
    THEN [i \in 1..Len(all) |->
            IF all[i].id = result.id THEN result ELSE all[i]]
    ELSE Append(all, result)

\* a keyword merge that would overwrite what is there
KeywordAddAlways(all, result) == DictSet(all, result)

\* if result.id not in all_results: all_results[result.id] = result
KeywordAdd(all, result) ==
    IF HasId(all, result.id) THEN all ELSE Append(all, result)

RECURSIVE AddAll(_, _)
AddAll(all, results) ==
    IF results = <<>> THEN all
    ELSE AddAll(DictSet(all, Head(results)), Tail(results))

RECURSIVE AddNew(_, _)
AddNew(all, results) ==
    IF results = <<>> THEN all
    ELSE AddNew(KeywordAdd(all, Head(results)), Tail(results))

\* a result without the cut
FinalUncapped(all) == all

\* list(all_results.values())[:20]
FinalResults(all) == Take(all, MaxTotal)

SearchIdle ==
    [pc |-> "idle", caller |-> None, search_type |-> None, limit |-> 0,
     shape |-> 0, option |-> 0, tried |-> <<>>,
     title_results |-> <<>>, keyword_results |-> <<>>,
     fallback_results |-> <<>>, fallback |-> FALSE,
     all_results |-> <<>>, final_results |-> <<>>,
     auth_posts |-> 0, auth_failed |-> FALSE,
     answered |-> FALSE, posts_400 |-> TRUE,
     name_docs |-> {}, name_failed |-> FALSE,
     last_200 |-> FALSE, unparsed_200 |-> FALSE]

\* the end of perform_combined_search
Finish(s) ==
    [s EXCEPT !.final_results = FinalResults(s.all_results), !.pc = "done",
              !.unparsed_200 = FALSE]

\* search_documents_simple is entered
EnterSimple(s, caller, search_type, limit) ==
    [s EXCEPT !.pc = "simple_token", !.caller = caller,
              !.search_type = search_type, !.limit = limit,
              !.shape = 0, !.tried = <<>>, !.last_200 = FALSE]

\* search_documents_title returns to perform_combined_search
TitleReturns(s, results) ==
    [s EXCEPT !.title_results = results,
              !.all_results = AddAll(s.all_results, results),
              !.pc = "keyword_token", !.unparsed_200 = FALSE]

\* search_documents_title raises: perform_combined_search catches
TitleRaises(s) == [s EXCEPT !.pc = "keyword_token", !.unparsed_200 = FALSE]

\* after the keyword pass: the fallback pass when nothing was collected
AfterKeyword(s) ==
    IF s.all_results = <<>>
    THEN EnterSimple([s EXCEPT !.fallback = TRUE, !.unparsed_200 = FALSE],
                     "fallback", "fallback", FallbackLimit)
    ELSE Finish(s)

\* search_documents_keyword returns to perform_combined_search
KeywordReturns(s, results) ==
    AfterKeyword([s EXCEPT !.keyword_results = results,
                           !.all_results = AddNew(s.all_results, results)])

\* search_documents_keyword raises: perform_combined_search catches
KeywordRaises(s) == AfterKeyword(s)

\* the fallback pass returns
FallbackReturns(s, results) ==
    Finish([s EXCEPT !.fallback_results = results,
                     !.all_results = AddAll(s.all_results, results)])

\* a fallback pass whose exception would leave perform_combined_search
FallbackPropagates(s) == [s EXCEPT !.pc = "raised", !.unparsed_200 = FALSE]

\* the fallback pass raises: perform_combined_search catches
FallbackRaises(s) == Finish(s)

\* search_documents_simple returns results to the function that called it
SimpleReturns(s, results) ==
    CASE s.caller \in {"title_400", "title_except"} -> TitleReturns(s, results)
      [] s.caller = "keyword" -> KeywordReturns(s, results)
      [] s.caller = "fallback" -> FallbackReturns(s, results)

\* search_documents_simple raises: the title search called from its 400
\* branch tries it again from its except branch; otherwise the caller
\* returns the empty list
SimpleRaises(s) ==
    CASE s.caller = "title_400" ->
            EnterSimple(s, "title_except", "title", LimitPerType)
      [] s.caller = "title_except" -> TitleReturns(s, <<>>)
      [] s.caller = "keyword" -> KeywordReturns(s, <<>>)
      [] s.caller = "fallback" -> FallbackRaises(s)

\* the default search_type of search_documents_simple
TitleFallbackTypeDefault == "simple"

\* the search_type the title search gives search_documents_simple
TitleFallbackType == "title"

\* the record after a get_token step with outcome o
Authenticated(s, o) ==
    [s EXCEPT !.auth_posts = @ + o.posts,
              !.auth_failed = @ \/ ~o.returned]

\* the record after the upstream answered r to a search request
Answered(s, method, param, r) ==
    [s EXCEPT !.answered = @ \/ (r.status = 200 /\ r.parsed),
              !.unparsed_200 = @ \/ (r.status = 200 /\ ~r.parsed),
              !.posts_400 = @ /\ (method = "POST" => r.status = 400),
              !.name_docs =
                  IF method = "GET" /\ param = "name" /\ r.status = 200
                     /\ r.parsed
                  THEN @ \cup {r.docs} ELSE @,
              !.name_failed =
                  @ \/ (/\ method = "GET" /\ param = "name"
                        /\ ~(r.status = 200 /\ r.parsed))]

perform_combined_search ==
    /\ search.pc = "idle"
    /\ search' = [SearchIdle EXCEPT !.pc = "title_token"]
    /\ UNCHANGED <<clockVars, tokenVars, userVars, fetch, handlerVars>>

\* search_documents_title up to its POST
title_get_token ==
    /\ search.pc = "title_token"
    /\ \E r \in SearchAuthResponses :
        \E o \in {GetTokenOutcome(token_cache, now, r)} :
            /\ token_cache' = o.cache
            /\ search' = IF o.returned
                         THEN [Authenticated(search, o) EXCEPT
                                  !.pc = "title_post"]
                         ELSE TitleRaises(Authenticated(search, o))
    /\ UNCHANGED <<clockVars, gt, userVars, fetch, handlerVars>>

\* search_documents_title from the answer to its POST
title_post ==
    /\ search.pc = "title_post"
    /\ \E r \in HttpResponses :
        \E s \in {Answered(search, "POST", "name", r)} :
            search' =
                CASE r.status = 400 ->
                        EnterSimple(s, "title_400", TitleFallbackType,
                                    LimitPerType)
                  [] r.status = 200 /\ r.parsed ->
                        TitleReturns(s, Results(r.docs, "title"))
                  [] OTHER ->
                        EnterSimple(s, "title_except", TitleFallbackType,
                                    LimitPerType)
    /\ UNCHANGED <<clockVars, tokenVars, userVars, fetch, handlerVars>>

\* search_documents_keyword up to its first POST
keyword_get_token ==
    /\ search.pc = "keyword_token"
    /\ \E r \in SearchAuthResponses :
        \E o \in {GetTokenOutcome(token_cache, now, r)} :
            /\ token_cache' = o.cache
            /\ search' = IF o.returned
                         THEN [Authenticated(search, o) EXCEPT
                                  !.pc = "keyword_post", !.option = 1]
                         ELSE KeywordRaises(Authenticated(search, o))
    /\ UNCHANGED <<clockVars, gt, userVars, fetch, handlerVars>>

\* search_documents_keyword: the answer to one of its POSTs
keyword_post ==
    /\ search.pc = "keyword_post"
    /\ \E r \in HttpResponses :
        \E s \in {Answered(search, "POST",
                           search_body_options[search.option], r)} :
            search' =
                CASE r.status = 200 /\ r.parsed ->
                        KeywordReturns(s, Results(r.docs, "keyword"))
                  [] ~(r.status = 200 /\ r.parsed)
                     /\ s.option < Len(search_body_options) ->
                        [s EXCEPT !.option = @ + 1]
                  [] OTHER ->
                        EnterSimple(s, "keyword", "keyword", LimitPerType)
    /\ UNCHANGED <<clockVars, tokenVars, userVars, fetch, handlerVars>>

\* search_documents_simple up to its first GET
simple_get_token ==
    /\ search.pc = "simple_token"
    /\ \E r \in SearchAuthResponses :
        \E o \in {GetTokenOutcome(token_cache, now, r)} :
            /\ token_cache' = o.cache
            /\ search' = IF o.returned
                         THEN [Authenticated(search, o) EXCEPT
                                  !.pc = "simple_get", !.shape = 1]
                         ELSE SimpleRaises(Authenticated(search, o))
    /\ UNCHANGED <<clockVars, gt, userVars, fetch, handlerVars>>

\* search_documents_simple: the answer to one of its GETs
simple_get ==
    /\ search.pc = "simple_get"
    /\ \E r \in HttpResponses :
        \E s \in {[Answered(search, "GET", params_options[search.shape], r)
                      EXCEPT !.tried =
                          Append(@, params_options[search.shape])]} :
            search' =
                CASE r.status = 200 /\ r.parsed ->
                        SimpleReturns([s EXCEPT !.last_200 = FALSE],
                            Take(Results(r.docs, s.search_type), s.limit))
                  [] ~(r.status = 200 /\ r.parsed)
                     /\ s.shape < Len(params_options) ->
                        [s EXCEPT !.shape = @ + 1,
                                  !.last_200 = (r.status = 200)]
                  [] OTHER ->
                        SimpleReturns([s EXCEPT !.last_200 = FALSE], <<>>)
    /\ UNCHANGED <<clockVars, tokenVars, userVars, fetch, handlerVars>>

\* the caller has the result
search_done ==
    /\ search.pc \in {"done", "raised"}
    /\ search' = SearchIdle
    /\ UNCHANGED <<clockVars, tokenVars, userVars, fetch, handlerVars>>


\* ------------------------------------------------------------------------
\* document_service.py: fetch_document_content
\* ------------------------------------------------------------------------

\* document_text longer than this counts as extracted
TextExtractedThreshold == 100
\* the characters around the error in "Document download failed: ..." and
\* around content type and size in "Binary document (...)"
DownloadFailedOverhead == 62
BinaryNoticeOverhead == 98

DocIds == 1..NumDocIds
ContentTypes == {"text/plain", "application/pdf"}
TextLens == {0, TextExtractedThreshold, TextExtractedThreshold + 1}
ErrLens == {1, TextExtractedThreshold - DownloadFailedOverhead,
            TextExtractedThreshold - DownloadFailedOverhead + 1}

\* the answers to the metadata GET: status 0 stands for a request that
\* raised, parsed tells whether the body is a JSON object
MetadataResponses ==
    [status : {200, 404, 500}, parsed : BOOLEAN]
        \cup [status : {0}, parsed : {FALSE}]

\* the answers to the download GET: for a 200, the content type, whether
\* the text extractor for it succeeds, and the length of what it returns
DownloadResponses ==
    {r \in [status : {200}, content_type : ContentTypes,
            extracted : BOOLEAN, len : TextLens] :
        /\ (r.content_type = "text/plain" => r.extracted)
        /\ (~r.extracted => r.len > 0)}
        \cup [status : {404, 500, 0}, content_type : {None},
              extracted : {FALSE}, len : ErrLens]

NoBundle ==
    [id |-> 0, head |-> None, content |-> None, len |-> 0,
     download_success |-> FALSE, text_extracted |-> FALSE]

FetchIdle(available) ==
    [pc |-> "idle", doc_id |-> 0, requests |-> <<>>, failure |-> None,
     status |-> 0, metadata_status |-> Absent, download_status |-> Absent,
     bundle |-> NoBundle, token |-> None,
     DOCUMENT_PROCESSING_AVAILABLE |-> available]

\* a status test that would let every answer pass
RaiseForStatusNever(status) == FALSE

\* response.raise_for_status()
RaiseForStatus(status) == status \notin 200..299

\* an except branch that would raise again
ErrorRaised(f) == [f EXCEPT !.pc = "raised", !.status = 500]

\* the except branch of fetch_document_content: the bundle of a failure
ErrorBundle(f) ==
    [f EXCEPT !.pc = "returned",
              !.bundle = [NoBundle EXCEPT
                             !.id = f.doc_id,
                             !.head = "Failed to fetch document",
                             !.content = "fetch_failed"]]

\* document_text after the download GET, as [content, len, download_success]
DocumentText(r, available) ==
    CASE r.status = 0 \/ RaiseForStatus(r.status) ->
            [content |-> "download_failed",
             len |-> DownloadFailedOverhead + r.len,
             download_success |-> FALSE]
      [] r.status = 200 /\ available ->
            [content |-> IF r.extracted THEN "document_text"
                         ELSE "processing_error",
             len |-> r.len, download_success |-> TRUE]
      [] r.status = 200 /\ ~available /\ r.content_type = "text/plain" ->
            [content |-> "document_text", len |-> r.len,
             download_success |-> TRUE]
      [] OTHER ->
            [content |-> "binary_notice",
             len |-> BinaryNoticeOverhead + Len(<<r.content_type>>),
             download_success |-> FALSE]

\* the bundle built from the metadata and document_text
ContentBundle(f, text) ==
    [f EXCEPT !.pc = "returned",
              !.bundle = [id |-> f.doc_id,
                          head |-> IF text.len > 0
                                   THEN "=== DOCUMENT CONTENT ==="
                                   ELSE "=== DOCUMENT CONTENT UNAVAILABLE ===",
                          content |-> text.content,
                          len |-> text.len,
                          download_success |-> text.download_success,
                          text_extracted |->
                              text.len > TextExtractedThreshold]]

\* fetch_document_content up to the metadata GET; get_token is called
\* before the try block
fetch_document_content_call(doc_id) ==
    /\ fetch.pc = "idle"
    /\ \E r \in SearchAuthResponses :
        \E o \in {GetTokenOutcome(token_cache, now, r)} :
            /\ token_cache' = o.cache
            /\ fetch' = IF o.returned
                        THEN [fetch EXCEPT !.pc = "await_metadata",
                                           !.doc_id = doc_id,
                                           !.token = o.cache.token,
                                           !.requests = <<"metadata">>]
                        ELSE [fetch EXCEPT !.pc = "raised",
                                           !.doc_id = doc_id,
                                           !.failure = "get_token",
                                           !.status = 401]
    /\ UNCHANGED <<clockVars, gt, userVars, search, handlerVars>>

\* fetch_document_content from the answer to the metadata GET to the
\* download GET
fetch_document_content_metadata ==
    /\ fetch.pc = "await_metadata"
    /\ \E r \in MetadataResponses :
        fetch' = IF r.status = 0 \/ RaiseForStatus(r.status) \/ ~r.parsed
                 THEN ErrorBundle([fetch EXCEPT
                                      !.failure = "metadata",
                                      !.metadata_status = r.status])
                 ELSE [fetch EXCEPT !.pc = "await_download",
                                    !.metadata_status = r.status,
                                    !.requests = Append(@, "download")]
    /\ UNCHANGED <<clockVars, tokenVars, userVars, search, handlerVars>>

\* fetch_document_content from the answer to the download GET to its end
fetch_document_content_download ==
    /\ fetch.pc = "await_download"
    /\ \E r \in DownloadResponses :
        \E text \in {DocumentText(r, fetch.DOCUMENT_PROCESSING_AVAILABLE)} :
            fetch' = ContentBundle(
                        [fetch EXCEPT
                            !.failure =
                                CASE r.status /= 200 -> "download"
                                  [] /\ r.status = 200 /\ ~r.extracted
                                     /\ fetch.DOCUMENT_PROCESSING_AVAILABLE ->
                                        "extraction"
                                  [] OTHER -> None,
                            !.download_status = r.status],
                        text)
    /\ UNCHANGED <<clockVars, tokenVars, userVars, search, handlerVars>>

\* the caller has the bundle or the exception
fetch_document_content_done ==
    /\ fetch.pc \in {"returned", "raised"}
    /\ fetch' = FetchIdle(fetch.DOCUMENT_PROCESSING_AVAILABLE)
    /\ UNCHANGED <<clockVars, tokenVars, userVars, search, handlerVars>>


\* ------------------------------------------------------------------------
\* The MCP handler: mcp_handlers.handle_mcp_request, main.mcp_handler
\* ------------------------------------------------------------------------

\* the two handlers of POST /
Handlers == {"mcp_handlers", "main"}
Methods == {"initialize", "auth/list", "auth/status", "tools/list",
            "tools/call", "notifications/initialized", "unknown/method"}
\* the "id" of a body; Absent: the body has none
RequestIds == {Absent} \cup (0..MaxRequestId)
\* the "name" of the params; None: the params have none
ToolNames == {"search", "fetch", "unknown_tool", None}

\* the non-empty queries of a search
Queries == {1}

\* the bodies of a request: not JSON, JSON that is no object, or an object;
\* params and arguments are an object or something else; arg is the query
\* or the document id of the arguments, 0 when it is missing or empty
Bodies ==
    [kind : {"invalid_json", "not_object"}, method : {None}, id : {Absent},
     params : {"object"}, name : {None}, arguments : {"object"}, arg : {0}]
    \cup [kind : {"object"}, method : Methods \ {"tools/call"},
          id : RequestIds, params : {"object"}, name : {None},
          arguments : {"object"}, arg : {0}]
    \cup [kind : {"object"}, method : {"tools/call"}, id : RequestIds,
          params : {"not_object"}, name : {None}, arguments : {"object"},
          arg : {0}]
    \cup [kind : {"object"}, method : {"tools/call"}, id : RequestIds,
          params : {"object"}, name : ToolNames, arguments : {"not_object"},
          arg : {0}]
    \cup [kind : {"object"}, method : {"tools/call"}, id : RequestIds,
          params : {"object"}, name : {"search"}, arguments : {"object"},
          arg : {0} \cup Queries]
    \cup [kind : {"object"}, method : {"tools/call"}, id : RequestIds,
          params : {"object"}, name : ToolNames \ {"search"},
          arguments : {"object"}, arg : {0} \cup DocIds]

\* the session id a request names in its headers; 0: none
NoSession == 0

\* what the handler gives back: a result or an error envelope, None
\* ("null"), or an exception that leaves it ("escaped"); has_id tells
\* whether the envelope has an "id" key, id is Absent for null
NoMcpResponse ==
    [kind |-> None, has_id |-> FALSE, id |-> Absent, code |-> 0,
     payload |-> None, detail |-> None, results |-> <<>>,
     bundle |-> NoBundle]

Result(request_id, payload) ==
    [NoMcpResponse EXCEPT !.kind = "result", !.has_id = TRUE,
                          !.id = request_id, !.payload = payload]

Error(request_id, code, payload, detail) ==
    [NoMcpResponse EXCEPT !.kind = "error", !.has_id = TRUE,
                          !.id = request_id, !.code = code,
                          !.payload = payload, !.detail = detail]

\* the except json.JSONDecodeError branch: an envelope without "id"
ParseError ==
    [NoMcpResponse EXCEPT !.kind = "error", !.code = -32700,
                          !.payload = "parse_error"]

\* request_id is assigned after body.get("method"): the except Exception
\* branch reads it unassigned when the body is no object
Escaped(detail) ==
    [NoMcpResponse EXCEPT !.kind = "escaped", !.detail = detail]

NullResponse == [NoMcpResponse EXCEPT !.kind = "null"]

\* the methods a handler has a branch for
SupportedMethods(handler) ==
    IF handler = "mcp_handlers"
    THEN Methods \ {"unknown/method"}
    ELSE Methods \ {"unknown/method", "notifications/initialized"}

\* the truth value Python gives a request id
Truthy(request_id) == request_id /= Absent /\ request_id /= 0

\* handle_initialized_notification
InitializedNotification(request_id) ==
    IF Truthy(request_id) THEN Result(request_id, "ack") ELSE NullResponse

\* a dispatch that would give every tool name but "fetch" to the search
DispatchToSearch(name) == IF name = "fetch" THEN "fetch" ELSE "search"

\* the branch handle_tools_call takes for a tool name
Dispatch(name) ==
    CASE name = "search" -> "search"
      [] name = "fetch" -> "fetch"
      [] OTHER -> "unknown"

\* handle_search_tool / handle_fetch_tool up to the call of the service:
\* the response, or "call" when the service is called
ToolCall(handler, body, tool) ==
    CASE body.arguments /= "object" ->
            Error(body.id, -32603, tool, "AttributeError")
      [] body.arg = 0 -> Error(body.id, -32603, tool, "ValueError")
      [] handler = "mcp_handlers" ->
            \* perform_combined_search(query, limit_per_type=10,
            \* request=request) and fetch_document_content(doc_id, request):
            \* the services take no request
            Error(body.id, -32603, tool, "TypeError")
      [] OTHER -> [NoMcpResponse EXCEPT !.kind = "call", !.payload = tool]

\* the handler up to its response or to the call of a service
Handle(handler, body) ==
    CASE body.kind = "invalid_json" -> ParseError
      [] body.kind = "not_object" -> Escaped("UnboundLocalError")
      [] body.method = "initialize" -> Result(body.id, "initialize")
      [] body.method = "auth/list" -> Result(body.id, "authMethods")
      [] body.method = "auth/status" -> Result(body.id, "authenticated")
      [] body.method = "tools/list" -> Result(body.id, "tools")
      [] body.method = "notifications/initialized"
         /\ handler = "mcp_handlers" -> InitializedNotification(body.id)
      [] body.method = "tools/call" /\ body.params /= "object" ->
            Error(body.id, -32603, "internal", "AttributeError")
      [] body.method = "tools/call"
         /\ Dispatch(body.name) = "unknown" ->
            Error(body.id, -32601, "unknown_tool", None)
      [] body.method = "tools/call" ->
            ToolCall(handler, body, Dispatch(body.name))
      [] OTHER -> Error(body.id, -32601, "unknown_method", None)

McpIdle ==
    [pc |-> "idle", handler |-> None, session |-> NoSession,
     body |-> [kind |-> None], awaited |-> FALSE,
     response |-> NoMcpResponse]

\* a request arrives and is handled up to its response or to the call of
\* perform_combined_search or fetch_document_content
mcp_request(handler, body, session) ==
    /\ mcp.pc = "idle"
    /\ search.pc = "idle"
    /\ fetch.pc = "idle"
    /\ \E r \in {Handle(handler, body)} :
        mcp' = IF r.kind = "call"
               THEN [McpIdle EXCEPT !.pc = r.payload, !.handler = handler,
                                    !.session = session, !.body = body,
                                    !.awaited = TRUE]
               ELSE [McpIdle EXCEPT !.pc = "responded",
                                    !.handler = handler,
                                    !.session = session, !.body = body,
                                    !.response = r]
    /\ UNCHANGED <<clockVars, tokenVars, userVars, search, fetch, relay,
                   resolve,
                   probe>>

\* the handler calls the combined search
mcp_search_call ==
    /\ mcp.pc = "search"
    /\ perform_combined_search

\* the combined search has returned: the handler wraps its results
mcp_search_returns ==
    /\ mcp.pc = "search"
    /\ search.pc \in {"done", "raised"}
    /\ mcp' = [mcp EXCEPT
                 !.pc = "responded",
                 !.response =
                     CASE search.pc = "raised" ->
                            Error(mcp.body.id, -32603, "search", "Exception")
                       [] search.final_results = <<>> ->
                            Result(mcp.body.id, "no_documents")
                       [] OTHER ->
                            [Result(mcp.body.id, "results") EXCEPT
                                !.results = search.final_results]]
    /\ search' = SearchIdle
    /\ UNCHANGED <<clockVars, tokenVars, userVars, fetch, relay, resolve,
                   probe>>

\* the handler calls fetch_document_content
mcp_fetch_call ==
    /\ mcp.pc = "fetch"
    /\ fetch_document_content_call(mcp.body.arg)

\* fetch_document_content has returned or raised: the handler wraps the
\* bundle or the exception
mcp_fetch_returns ==
    /\ mcp.pc = "fetch"
    /\ fetch.pc \in {"returned", "raised"}
    /\ mcp' = [mcp EXCEPT
                 !.pc = "responded",
                 !.response =
                     IF fetch.pc = "raised"
                     THEN Error(mcp.body.id, -32603, "fetch", fetch.failure)
                     ELSE [Result(mcp.body.id, "bundle") EXCEPT
                              !.bundle = fetch.bundle]]
    /\ fetch' = FetchIdle(fetch.DOCUMENT_PROCESSING_AVAILABLE)
    /\ UNCHANGED <<clockVars, tokenVars, userVars, search, relay, resolve,
                   probe>>

\* the response has been sent
mcp_done ==
    /\ mcp.pc = "responded"
    /\ mcp' = McpIdle
    /\ UNCHANGED <<clockVars, tokenVars, userVars, search, fetch, relay,
                   resolve,
                   probe>>


\* ------------------------------------------------------------------------
\* oauth_endpoints.py: oauth_authorize, oauth_callback, oauth_token
\* ------------------------------------------------------------------------

\* config.AUTH_MODE
AuthModes == {"service", "user"}

\* config.is_user_auth_enabled
is_user_auth_enabled(mode) == mode = "user"

\* the response of an endpoint: a redirect, an HTML page, a JSON body or an
\* HTTPException; inner and detail are the status and the detail of the
\* exception oauth_callback caught
NoRelayResponse ==
    [endpoint |-> None, kind |-> None, status |-> 0, target |-> None,
     state |-> 0, sid |-> 0, inner |-> 0, detail |-> None,
     grant_type |-> None, code |-> FALSE, access_token |-> None]

RelayIdle(mode) ==
    [AUTH_MODE |-> mode, pc |-> "idle",
     entries |-> [sid \in SessionIds |-> NoRelayEntry],
     generated |-> {}, completed |-> FALSE,
     response |-> NoRelayResponse]

Responded(r, response) == [r EXCEPT !.pc = "responded", !.response = response]

HttpError(endpoint, status, detail) ==
    [NoRelayResponse EXCEPT !.endpoint = endpoint, !.kind = "http_error",
                            !.status = status, !.detail = detail]

HtmlPage(status, detail) ==
    [NoRelayResponse EXCEPT !.endpoint = "callback", !.kind = "html",
                            !.status = status, !.detail = detail]

\* secrets.token_urlsafe(32) at oauth_endpoints.py:38 and at auth.py:73: two
\* draws of 256 random bits, taken never to give the same string
SessionIdToken(session_id) == <<"oauth_endpoints.py:38", session_id>>
StateToken(state) == <<"auth.py:73", state>>

\* GET /oauth/authorize: client_ok tells whether client_id is CLIENT_ID; the
\* session id is secrets.token_urlsafe(32), one not generated before, and
\* get_authorization_url takes a new state for it from generate_oauth_state
oauth_authorize(client_ok, response_type) ==
    /\ relay.pc = "idle"
    /\ \/ /\ ~is_user_auth_enabled(relay.AUTH_MODE)
          /\ relay' = Responded(relay,
                          HttpError("authorize", 404, "not_enabled"))
          /\ UNCHANGED <<oauth_states, issued>>
       \/ /\ is_user_auth_enabled(relay.AUTH_MODE)
          /\ ~client_ok
          /\ relay' = Responded(relay,
                          HttpError("authorize", 400, "invalid_client_id"))
          /\ UNCHANGED <<oauth_states, issued>>
       \/ /\ is_user_auth_enabled(relay.AUTH_MODE)
          /\ client_ok
          /\ response_type /= "code"
          /\ relay' = Responded(relay,
                          HttpError("authorize", 400, "response_type"))
          /\ UNCHANGED <<oauth_states, issued>>
       \/ /\ is_user_auth_enabled(relay.AUTH_MODE)
          /\ client_ok
          /\ response_type = "code"
          /\ \E session_id \in SessionIds \ relay.generated :
             \E state \in StateTokens \ issued :
                /\ oauth_states' = [oauth_states EXCEPT ![state] =
                        [session_id |-> session_id,
                         expires_at |-> now + StateTTL]]
                /\ issued' = issued \cup {state}
                /\ relay' =
                     [Responded(relay,
                         [NoRelayResponse EXCEPT
                             !.endpoint = "authorize", !.kind = "redirect",
                             !.status = 307, !.target = "imanage",
                             !.state = state, !.sid = session_id])
                      EXCEPT !.entries[session_id] =
                                 [redirect_uri |-> "agent_redirect_uri",
                                  state |-> "agent_state",
                                  expires_at |-> now + StateTTL],
                             !.generated = @ \cup {session_id}]
    /\ UNCHANGED <<consumed, heap, user_sessions, ex, gut>>
    /\ UNCHANGED <<clockVars, tokenVars, search, fetch, mcp, resolve,
                   probe>>

\* GET /oauth/callback with an error, or without code or state
oauth_callback_rejects(code, state, error) ==
    /\ relay.pc = "idle"
    /\ error \/ ~code \/ ~state
    /\ relay' = Responded(relay,
                    HtmlPage(400, IF error THEN "error" ELSE "missing"))
    /\ UNCHANGED <<clockVars, tokenVars, userVars, search, fetch, mcp,
                   resolve,
                   probe>>

\* GET /oauth/callback with a code and a state: oauth_callback up to the
\* suspension of authenticate_with_oauth_code, or to its HTTPException
oauth_callback_call(state) ==
    /\ relay.pc = "idle"
    /\ authenticate_with_oauth_code_call(state)

\* GET /oauth/callback with a code and, as state, a key oauth_authorize put
\* into oauth_states: validate_oauth_state deletes an expired entry and
\* returns None; otherwise it reads "session_id" of an entry that has none
oauth_callback_relay_key(session_id) ==
    /\ relay.pc = "idle"
    /\ relay.entries[session_id] /= NoRelayEntry
    /\ relay' =
         IF now > relay.entries[session_id].expires_at
         THEN [Responded(relay,
                   [HtmlPage(401, "invalid_state") EXCEPT !.inner = 400])
               EXCEPT !.entries[session_id] = NoRelayEntry]
         ELSE Responded(relay,
                  [HtmlPage(401, "KeyError") EXCEPT !.inner = 500])
    /\ UNCHANGED <<clockVars, tokenVars, userVars, search, fetch, mcp,
                   resolve,
                   probe>>

\* authenticate_with_oauth_code has returned or raised: oauth_callback
\* answers with the success page or, from its except branch, the 401 page
oauth_callback_returns ==
    /\ relay.pc = "idle"
    /\ ex.pc \in {"returned", "raised"}
    /\ relay' =
         IF ex.pc = "returned"
         THEN [Responded(relay,
                   [HtmlPage(200, "success") EXCEPT
                       !.state = ex.state, !.sid = ex.sid, !.inner = 200])
               EXCEPT !.completed = TRUE]
         ELSE Responded(relay,
                  [HtmlPage(401, ex.detail) EXCEPT
                      !.state = ex.state, !.inner = ex.status])
    /\ ex' = ExIdle
    /\ UNCHANGED <<oauth_states, issued, consumed, heap, user_sessions, gut>>
    /\ UNCHANGED <<clockVars, tokenVars, search, fetch, mcp, resolve,
                   probe>>

GrantTypes == {"authorization_code", "refresh_token", "password"}

\* POST /oauth/token: client_ok tells whether client_id and client_secret
\* are those of the relay, code and refresh_token whether the form has them
oauth_token(grant_type, code, refresh_token, client_ok) ==
    /\ relay.pc = "idle"
    /\ relay' = Responded(relay,
         CASE ~client_ok -> HttpError("token", 401, "invalid_client")
           [] grant_type = "authorization_code" /\ ~code ->
                 HttpError("token", 400, "missing_code")
           [] grant_type = "authorization_code" ->
                 [NoRelayResponse EXCEPT
                     !.endpoint = "token", !.kind = "json", !.status = 200,
                     !.grant_type = grant_type, !.code = code,
                     !.access_token = "mcp_authenticated"]
           [] grant_type = "refresh_token" /\ ~refresh_token ->
                 HttpError("token", 400, "missing_refresh_token")
           [] grant_type = "refresh_token" ->
                 [NoRelayResponse EXCEPT
                     !.endpoint = "token", !.kind = "json", !.status = 200,
                     !.grant_type = grant_type,
                     !.access_token = "mcp_refreshed"]
           [] OTHER -> HttpError("token", 400, "unsupported_grant_type"))
    /\ UNCHANGED <<clockVars, tokenVars, userVars, search, fetch, mcp,
                   resolve,
                   probe>>

\* the response of an endpoint has been sent
relay_done ==
    /\ relay.pc = "responded"
    /\ relay' = [relay EXCEPT !.pc = "idle", !.response = NoRelayResponse]
    /\ UNCHANGED <<clockVars, tokenVars, userVars, search, fetch, mcp,
                   resolve,
                   probe>>

\* ------------------------------------------------------------------------
\* auth.py: get_authenticated_token
\* ------------------------------------------------------------------------

\* the caller whose get_user_token and get_token coroutines
\* get_authenticated_token awaits
Resolver == 1

\* session: the session id get_session_id_from_request finds in the headers;
\* user_failed: get_user_token raised an HTTPException; via: the function
\* whose token is returned
ResolveIdle ==
    [pc |-> "idle", request |-> FALSE, session |-> NoSession,
     user_failed |-> FALSE, via |-> None, ret |-> None, status |-> 0]

\* get_authenticated_token up to its first await; nothing sets
\* request.state.user_token, so get_user_token_from_request returns None
get_authenticated_token_call(request, session) ==
    /\ resolve.pc = "idle"
    /\ gut[Resolver].pc = "idle"
    /\ gt[Resolver].pc = "idle"
    /\ resolve' = [ResolveIdle EXCEPT
                      !.request = request,
                      !.session = session,
                      !.pc = IF /\ is_user_auth_enabled(relay.AUTH_MODE)
                                /\ request
                                /\ session /= NoSession
                             THEN "user" ELSE "service"]
    /\ UNCHANGED <<clockVars, tokenVars, userVars, search, fetch, mcp,
                   relay,
                   probe>>

\* await user_auth_manager.get_user_token(session_id)
resolve_get_user_token ==
    /\ resolve.pc = "user"
    /\ get_user_token_call(Resolver, resolve.session)

\* get_user_token has returned or raised: its token is returned, its
\* HTTPException is passed over, any other exception leaves
resolve_user_returns ==
    /\ resolve.pc = "user"
    /\ gut[Resolver].pc \in {"returned", "raised"}
    /\ resolve' =
         CASE gut[Resolver].pc = "returned" ->
                [resolve EXCEPT !.pc = "returned", !.via = "get_user_token",
                                !.ret = gut[Resolver].ret, !.status = 200]
           [] gut[Resolver].pc = "raised" /\ gut[Resolver].status = 401 ->
                [resolve EXCEPT !.pc = "service", !.user_failed = TRUE]
           [] OTHER ->
                [resolve EXCEPT !.pc = "raised", !.via = "get_user_token",
                                !.status = gut[Resolver].status]
    /\ gut' = [gut EXCEPT ![Resolver] = GutIdle]
    /\ UNCHANGED <<oauth_states, issued, consumed, heap, user_sessions, ex>>
    /\ UNCHANGED <<clockVars, tokenVars, search, fetch, mcp, relay,
                   probe>>

\* return await get_token()
resolve_get_token ==
    /\ resolve.pc = "service"
    /\ get_token_call(Resolver)

\* get_token has returned or raised
resolve_service_returns ==
    /\ resolve.pc = "service"
    /\ gt[Resolver].pc \in {"returned", "raised"}
    /\ resolve' =
         IF gt[Resolver].pc = "returned"
         THEN [resolve EXCEPT !.pc = "returned", !.via = "get_token",
                              !.ret = gt[Resolver].ret, !.status = 200]
         ELSE [resolve EXCEPT !.pc = "raised", !.via = "get_token",
                              !.status = gt[Resolver].status]
    /\ gt' = [gt EXCEPT ![Resolver] = GtIdle]
    /\ UNCHANGED <<token_cache, clockVars, userVars, search, fetch, mcp,
                   relay,
                   probe>>

\* the caller has the token or the exception
get_authenticated_token_done ==
    /\ resolve.pc \in {"returned", "raised"}
    /\ resolve' = ResolveIdle
    /\ UNCHANGED <<clockVars, tokenVars, userVars, search, fetch, mcp,
                   relay,
                   probe>>


\* ------------------------------------------------------------------------
\* Functions called on their own
\* ------------------------------------------------------------------------

\* no function has been called
ProbeIdle == [function |-> None]
InitProbe == probe = ProbeIdle

\* the managers logout_user is called on: sessions 1 and 2 under some of
\* the keys, OAuth states under some of the state tokens
ProbeKeys == 1..NumProbeKeys
Managers ==
    [user_sessions : [ProbeKeys -> 0..2],
     oauth_states : [StateTokens ->
                        {NoEntry, [session_id |-> 1, expires_at |-> StateTTL]}]]

LogoutProbe(manager) ==
    [function |-> "logout_user", manager |-> manager, before |-> manager,
     session_ids |-> <<>>, rets |-> <<>>]

\* user_auth_manager.logout_user(session_id) on the manager of the probe
logout_user_probe(session_id) ==
    /\ probe.function = "logout_user"
    /\ Len(probe.rets) < MaxProbeCalls
    /\ \E out \in {LogoutUser(probe.manager, session_id)} :
         probe' = [probe EXCEPT !.manager = out.manager,
                                !.before = probe.manager,
                                !.session_ids = Append(@, session_id),
                                !.rets = Append(@, out.ret)]
    /\ UNCHANGED <<clockVars, tokenVars, userVars, search, fetch, mcp, relay,
                   resolve>>

\* the managers cleanup_expired_sessions is called on, and the times of the
\* call: sessions under some of the keys, and under some of the state
\* tokens an entry of generate_oauth_state or one of oauth_authorize
SweepTimes == {0, 1, 2}
SweepManagers ==
    [user_sessions :
        [ProbeKeys -> {NoObj} \cup [access_token : {"tokA"},
                                    refresh_token : {None},
                                    expires_at : SweepTimes]],
     oauth_states :
        [StateTokens ->
            {NoEntry} \cup [session_id : {1}, expires_at : SweepTimes]
                     \cup [redirect_uri : {"agent_redirect_uri"},
                           state : {"agent_state"},
                           expires_at : SweepTimes]]]

SweepProbe(manager, t) ==
    [function |-> "cleanup_expired_sessions", manager |-> manager,
     before |-> manager, time |-> t, called |-> FALSE]

\* user_auth_manager.cleanup_expired_sessions() on the manager of the probe
cleanup_expired_sessions_probe ==
    /\ probe.function = "cleanup_expired_sessions"
    /\ ~probe.called
    /\ probe' = [probe EXCEPT
                    !.called = TRUE,
                    !.manager = CleanupExpiredSessions(probe.manager,
                                                       probe.time)]
    /\ UNCHANGED <<clockVars, tokenVars, userVars, search, fetch, mcp, relay,
                   resolve>>

\* document_processor.py:9-20: the imports in their order; the first one
\* that fails leaves the later names unbound
Libraries == <<"PyPDF2", "pdfplumber", "docx", "openpyxl", "pptx", "bs4">>

\* missing: the place of the first import that fails, 0 when none does
Imported(library, missing) ==
    \/ missing = 0
    \/ \E i \in 1..Len(Libraries) : Libraries[i] = library /\ i < missing

\* the words process_document_content looks for in the lower-case content
\* type, and the extensions it looks for at the end of the file name
ContentTypeWords ==
    [t \in {"application/pdf", "application/msword",
            "application/vnd.openxmlformats-officedocument.spreadsheetml.sheet",
            "application/vnd.ms-powerpoint", "text/html", "text/plain",
            "application/json", "application/octet-stream"} |->
        CASE t = "application/pdf" -> {"pdf"}
          [] t = "application/msword" -> {"msword"}
          [] t = "application/vnd.openxmlformats-officedocument.spreadsheetml.sheet"
                -> {"spreadsheetml", "xml"}
          [] t = "application/vnd.ms-powerpoint" -> {"powerpoint"}
          [] t = "text/html" -> {"html", "text"}
          [] t = "text/plain" -> {"text"}
          [] t = "application/json" -> {"json"}
          [] OTHER -> {}]
Extensions == {"", ".pdf", ".docx", ".xls", ".pptx", ".htm"}

\* what the parsing libraries make of the bytes
Contents == {"readable", "no_text", "corrupt"}

\* document_processor.py:191-217: the branch process_document_content takes
Branch(content_type, extension) ==
    LET words == ContentTypeWords[content_type] IN
    CASE "pdf" \in words \/ extension = ".pdf" -> "pdf"
      [] {"msword", "wordprocessingml"} \cap words /= {}
         \/ extension \in {".doc", ".docx"} -> "docx"
      [] {"excel", "spreadsheetml"} \cap words /= {}
         \/ extension \in {".xls", ".xlsx"} -> "excel"
      [] {"powerpoint", "presentationml"} \cap words /= {}
         \/ extension \in {".ppt", ".pptx"} -> "pptx"
      [] "html" \in words \/ extension \in {".html", ".htm"} -> "html"
      [] {"text", "json", "xml"} \cap words /= {} -> "text"
      [] OTHER -> "unsupported"

\* the try block of an extractor: the text or the notice it returns, or
\* "raises": a name of a library that was not imported, or a library that
\* rejects the bytes; the PDF extractor goes on to pdfplumber when PyPDF2
\* finds no text
TryBlock(branch, content, missing) ==
    LET parse(library) ==
            IF ~Imported(library, missing) \/ content = "corrupt"
            THEN "raises"
            ELSE IF content = "readable" THEN "text" ELSE "notice"
    IN  CASE branch = "pdf" ->
                IF parse("PyPDF2") = "notice"
                THEN (IF Imported("pdfplumber", missing)
                      THEN "notice" ELSE "raises")
                ELSE parse("PyPDF2")
          [] branch = "docx" -> parse("docx")
          [] branch = "excel" -> parse("openpyxl")
          [] branch = "pptx" -> parse("pptx")
          [] branch = "html" -> parse("bs4")
          [] branch = "text" -> "text"
          [] OTHER -> "unsupported"

\* an except branch that would raise again
ExceptReraises(outcome) == outcome

\* except Exception as e: return f"... processing error: {str(e)}"
ExceptReturnsError(outcome) == IF outcome = "raises" THEN "error" ELSE outcome

\* process_document_content: the branch taken, whether its try block
\* raised, and what the caller gets
ProcessDocumentContent(content, content_type, extension, missing) ==
    LET branch == Branch(content_type, extension)
        outcome == TryBlock(branch, content, missing)
    IN  [branch |-> branch, failed |-> outcome = "raises",
         returns |-> ExceptReturnsError(outcome)]

ExtractProbe(content, content_type, extension, missing) ==
    [function |-> "process_document_content", content |-> content,
     content_type |-> content_type, extension |-> extension,
     missing |-> missing, called |-> FALSE,
     out |-> [branch |-> None, failed |-> FALSE, returns |-> None]]

\* await process_document_content(content, content_type, filename)
process_document_content_probe ==
    /\ probe.function = "process_document_content"
    /\ ~probe.called
    /\ probe' = [probe EXCEPT
                    !.called = TRUE,
                    !.out = ProcessDocumentContent(probe.content,
                                probe.content_type, probe.extension,
                                probe.missing)]
    /\ UNCHANGED <<clockVars, tokenVars, userVars, search, fetch, mcp, relay,
                   resolve>>

\* document_processor.py:113: the rows of a sheet that are read
RowLimit == 100
\* a sheet is given as at most this many runs of blank or non-blank rows
MaxRuns == 3
RunLens == {1, RowLimit - 1, RowLimit, RowLimit + 1}
Runs == [blank : BOOLEAN, rows : RunLens]
Sheets == UNION {[1..n -> Runs] : n \in 0..MaxRuns}

\* sheet.iter_rows(values_only=True): one entry per row, TRUE for a row
\* whose cells are all None or white space
RECURSIVE IterRows(_)
IterRows(sheet) ==
    IF sheet = <<>> THEN <<>>
    ELSE [i \in 1..Head(sheet).rows |-> Head(sheet).blank]
            \o IterRows(Tail(sheet))

\* extract_text_from_excel before the loop over the rows of a sheet:
\* row_num is the number enumerate gives the next row, sheet_data holds the
\* numbers of the rows that were joined, truncated tells whether the
\* "... (truncated" line was appended
ExcelProbe(sheet) ==
    [function |-> "extract_text_from_excel", sheet |-> sheet,
     pc |-> "rows", row_num |-> 1, sheet_data |-> <<>>, truncated |-> FALSE]

\* one pass of the loop body; the loop ends when the rows are used up or
\* at the break
extract_text_from_excel_row ==
    /\ probe.function = "extract_text_from_excel"
    /\ probe.pc = "rows"
    /\ LET rows == IterRows(probe.sheet)
           row_num == probe.row_num
           joined == IF ~rows[row_num]
                     THEN Append(probe.sheet_data, row_num)
                     ELSE probe.sheet_data
       IN  probe' =
            IF row_num > Len(rows)
            THEN [probe EXCEPT !.pc = "sheet_done"]
            ELSE IF row_num > RowLimit
                 THEN [probe EXCEPT !.pc = "sheet_done",
                                    !.sheet_data = joined,
                                    !.truncated = TRUE]
                 ELSE [probe EXCEPT !.row_num = row_num + 1,
                                    !.sheet_data = joined]
    /\ UNCHANGED <<clockVars, tokenVars, userVars, search, fetch, mcp, relay,
                   resolve>>

InitUser ==
    /\ oauth_states = [state \in StateTokens |-> NoEntry]
    /\ issued = {}
    /\ consumed = {}
    /\ heap = [obj \in ObjIds |-> NoObj]
    /\ user_sessions = [sid \in SessionIds |-> 0]
    /\ ex = ExIdle
    /\ gut = [c \in Callers |-> GutIdle]

InitClock == now = 0 /\ ticks = 0
InitToken ==
    /\ token_cache = [token |-> None, expires |-> 0]
    /\ gt = [c \in Callers |-> GtIdle]

InitSearch == search = SearchIdle
InitHandlers == mcp = McpIdle /\ resolve = ResolveIdle /\ InitProbe
InitCore == InitClock /\ InitToken /\ InitUser /\ InitSearch /\ InitHandlers
\* AUTH_MODE is "service" unless the environment sets it
InitBase == InitCore /\ relay = RelayIdle("service")

InitAll == InitBase /\ fetch = FetchIdle(TRUE)

\* DOCUMENT_PROCESSING_AVAILABLE is decided when document_processor is
\* imported
InitFetch == InitBase /\ \E available \in BOOLEAN : fetch = FetchIdle(available)

NextToken ==
    \/ Tick
    \/ \E c \in Callers : get_token_call(c)
    \/ \E c \in Callers : get_token_resume(c)
    \/ \E c \in Callers : get_token_done(c)

SpecToken == InitAll /\ [][NextToken]_vars

\* the OAuth states and the code exchange
NextState ==
    \/ Tick
    \/ TickTTL
    \/ \E sid \in SessionIds : generate_oauth_state(sid)
    \/ \E state \in StateTokens : validate_oauth_state(state)
    \/ \E state \in StateTokens : authenticate_with_oauth_code_call(state)
    \/ authenticate_with_oauth_code_resume
    \/ authenticate_with_oauth_code_done
    \/ cleanup_expired_sessions

SpecState == InitAll /\ [][NextState]_vars

\* the stored sessions and their tokens
NextSession ==
    \/ Tick
    \/ \E sid \in SessionIds : session_stored(sid)
    \/ \E c \in Callers, sid \in SessionIds : get_user_token_call(c, sid)
    \/ \E c \in Callers : get_user_token_resume(c)
    \/ \E c \in Callers : get_user_token_done(c)
    \/ \E sid \in SessionIds : logout_user(sid)
    \/ cleanup_expired_sessions

SpecSession == InitAll /\ [][NextSession]_vars

\* get_user_token calls on their own: no logout and no sweep
NextRefresh ==
    \/ Tick
    \/ \E sid \in SessionIds : session_stored(sid)
    \/ \E c \in Callers, sid \in SessionIds : get_user_token_call(c, sid)
    \/ \E c \in Callers : get_user_token_resume(c)
    \/ \E c \in Callers : get_user_token_done(c)

SpecRefresh == InitAll /\ [][NextRefresh]_vars

\* the combined search
NextSearch ==
    \/ perform_combined_search
    \/ title_get_token
    \/ title_post
    \/ keyword_get_token
    \/ keyword_post
    \/ simple_get_token
    \/ simple_get
    \/ search_done

SpecSearch == InitAll /\ [][NextSearch]_vars

\* the document fetch
NextFetch ==
    \/ \E doc_id \in DocIds : fetch_document_content_call(doc_id)
    \/ fetch_document_content_metadata
    \/ fetch_document_content_download
    \/ fetch_document_content_done

SpecFetch == InitFetch /\ [][NextFetch]_vars

\* the MCP handler over the search and the fetch
NextMcp ==
    \/ \E handler \in Handlers, body \in Bodies :
            mcp_request(handler, body, NoSession)
    \/ mcp_search_call
    \/ title_get_token
    \/ title_post
    \/ keyword_get_token
    \/ keyword_post
    \/ simple_get_token
    \/ simple_get
    \/ mcp_search_returns
    \/ mcp_fetch_call
    \/ fetch_document_content_metadata
    \/ fetch_document_content_download
    \/ mcp_fetch_returns
    \/ mcp_done

SpecMcp == InitAll /\ [][NextMcp]_vars

\* everything but the probe
InitUnprobed ==
    /\ InitClock /\ InitToken /\ InitUser /\ InitSearch
    /\ mcp = McpIdle /\ resolve = ResolveIdle
    /\ fetch = FetchIdle(TRUE)
    /\ relay = RelayIdle("service")

\* logout_user on a manager of its own
InitLogout == InitUnprobed /\ \E manager \in Managers : probe = LogoutProbe(manager)
NextLogout == \E session_id \in ProbeKeys : logout_user_probe(session_id)
SpecLogout == InitLogout /\ [][NextLogout]_vars

\* cleanup_expired_sessions on a manager of its own
InitSweep ==
    /\ InitUnprobed
    /\ \E manager \in SweepManagers, t \in SweepTimes :
            probe = SweepProbe(manager, t)
SpecSweep == InitSweep /\ [][cleanup_expired_sessions_probe]_vars

\* process_document_content on every content, content type, file name
\* and set of imported libraries
InitExtract ==
    /\ InitUnprobed
    /\ \E content \in Contents, content_type \in DOMAIN ContentTypeWords,
          extension \in Extensions, missing \in 0..Len(Libraries) :
            probe = ExtractProbe(content, content_type, extension, missing)
SpecExtract == InitExtract /\ [][process_document_content_probe]_vars

\* extract_text_from_excel on every sheet of the bounded set
InitExcel == InitUnprobed /\ \E sheet \in Sheets : probe = ExcelProbe(sheet)
SpecExcel == InitExcel /\ [][extract_text_from_excel_row]_vars

\* AUTH_MODE is read from the environment when config is imported
InitConfigured ==
    /\ InitCore
    /\ fetch = FetchIdle(TRUE)
    /\ \E mode \in AuthModes : relay = RelayIdle(mode)

\* the OAuth endpoints
NextRelay ==
    \/ Tick
    \/ TickTTL
    \/ \E client_ok \in BOOLEAN, response_type \in {"code", "token"} :
            oauth_authorize(client_ok, response_type)
    \/ \E code, state, error \in BOOLEAN :
            oauth_callback_rejects(code, state, error)
    \/ \E state \in StateTokens : oauth_callback_call(state)
    \/ \E session_id \in SessionIds : oauth_callback_relay_key(session_id)
    \/ authenticate_with_oauth_code_resume
    \/ oauth_callback_returns
    \/ \E grant_type \in GrantTypes, code, refresh_token, client_ok \in BOOLEAN :
            oauth_token(grant_type, code, refresh_token, client_ok)
    \/ relay_done
    \/ cleanup_expired_sessions

SpecRelay == InitConfigured /\ [][NextRelay]_vars

\* the token resolution of a request over the stored sessions
NextResolve ==
    \/ Tick
    \/ \E sid \in SessionIds : session_stored(sid)
    \/ \E request \in BOOLEAN, session \in {NoSession} \cup SessionIds :
            get_authenticated_token_call(request, session)
    \/ resolve_get_user_token
    \/ get_user_token_resume(Resolver)
    \/ resolve_user_returns
    \/ resolve_get_token
    \/ get_token_resume(Resolver)
    \/ resolve_service_returns
    \/ get_authenticated_token_done
    \/ \E sid \in SessionIds : logout_user(sid)
    \/ cleanup_expired_sessions

SpecResolve == InitConfigured /\ [][NextResolve]_vars

\* the requests for everything but a search
FetchBodies == {body \in Bodies : body.name /= "search"}

\* the MCP handler over the fetch, for requests that name a session
NextUserFetch ==
    \/ \E sid \in SessionIds : session_stored(sid)
    \/ \E handler \in Handlers, body \in FetchBodies,
          session \in {NoSession} \cup SessionIds :
            mcp_request(handler, body, session)
    \/ mcp_fetch_call
    \/ fetch_document_content_metadata
    \/ fetch_document_content_download
    \/ mcp_fetch_returns
    \/ mcp_done

SpecUserFetch == InitConfigured /\ [][NextUserFetch]_vars


\* ------------------------------------------------------------------------
\* Properties
\* ------------------------------------------------------------------------

\* C1: a get_token call made while a token is cached and now < expiresAt
\* returns the cached token, issues no request to the provider and leaves the
\* cache alone; a call made when no token is cached or now >= expiresAt sends
\* one password-grant POST, and no further one until it completes.
C1_CacheDecidesRequest ==
    [][\A c \in Callers :
        /\ (gt[c].pc = "idle" /\ gt'[c].pc /= "idle") =>
              IF token_cache.token /= None /\ now < token_cache.expires
              THEN /\ gt'[c].pc = "returned"
                   /\ gt'[c].ret = token_cache.token
                   /\ gt'[c].posts = 0
                   /\ token_cache' = token_cache
              ELSE /\ gt'[c].pc = "await_post"
                   /\ gt'[c].posts = 1
        /\ (gt[c].pc /= "idle" /\ gt'[c].pc /= "idle") =>
              gt'[c].posts = gt[c].posts]_vars

\* C1 witness: one caller was served from the cache (no POST) and, the
\* cached token having expired since, another caller awaits its one POST
C1_Witness ==
    \E c, d \in Callers :
        /\ gt[c].pc = "returned" /\ gt[c].posts = 0
        /\ gt[d].pc = "await_post" /\ gt[d].posts = 1
        /\ token_cache.token /= None /\ now >= token_cache.expires

\* C2: once validate_oauth_state has been called on an issued state token,
\* every later validate_oauth_state on that token returns no session id, and
\* authenticate_with_oauth_code with it fails with the invalid-state error.
C2_StateSingleUse ==
    /\ \A state \in consumed : ValidateResult(oauth_states, state, now) = 0
    /\ (ex.pc /= "idle" /\ ex.again) =>
          /\ ex.pc = "raised"
          /\ ex.status = 400
          /\ ex.detail = "invalid_state"

\* C2 witness: a state token was consumed by a successful exchange, and a
\* second exchange with the same token has just been refused
C2_Witness ==
    /\ ex.pc = "raised" /\ ex.again /\ ex.state \in issued
    /\ \E sid \in SessionIds : user_sessions[sid] /= 0

\* the stored session of a session id
SessionOf(sid) == heap[user_sessions[sid]]

\* C3: get_user_token on a stored session with now >= expiresAt deletes the
\* session and fails with the session-expired 401 error when the session has
\* no refresh token or the refresh-token grant fails; a following
\* get_user_token on the absent session id fails with not-authenticated.
C3_ExpiredSessionDeleted ==
    [][\A c \in Callers :
        /\ (/\ gut[c].pc = "idle" /\ gut'[c].pc /= "idle"
            /\ user_sessions[gut'[c].sid] /= 0
            /\ now >= SessionOf(gut'[c].sid).expires_at
            /\ SessionOf(gut'[c].sid).refresh_token = None) =>
              /\ gut'[c].pc = "raised"
              /\ gut'[c].status = 401
              /\ gut'[c].detail = "session_expired"
              /\ user_sessions'[gut'[c].sid] = 0
        /\ (/\ gut[c].pc = "await_refresh" /\ gut'[c].pc /= "await_refresh"
            /\ gut'[c].resp.kind = "error") =>
              /\ gut'[c].pc = "raised"
              /\ gut'[c].status = 401
              /\ gut'[c].detail = "session_expired"
              /\ user_sessions'[gut'[c].sid] = 0
        /\ (/\ gut[c].pc = "idle" /\ gut'[c].pc /= "idle"
            /\ user_sessions[gut'[c].sid] = 0) =>
              /\ gut'[c].pc = "raised"
              /\ gut'[c].status = 401
              /\ gut'[c].detail = "not_authenticated"]_vars

\* C4: get_user_token on a stored session with now < expiresAt returns the
\* session's access token without a request and leaves the session as it is;
\* when the token is expired and the refresh-token grant succeeds it returns
\* the new access token, and the session is stored under the same session id
\* with the new access token and the new expiresAt.
C4_CachedOrRefreshed ==
    [][\A c \in Callers :
        /\ (/\ gut[c].pc = "idle" /\ gut'[c].pc /= "idle"
            /\ user_sessions[gut'[c].sid] /= 0
            /\ now < SessionOf(gut'[c].sid).expires_at) =>
              /\ gut'[c].pc = "returned"
              /\ gut'[c].ret = SessionOf(gut'[c].sid).access_token
              /\ gut'[c].posts = 0
              /\ user_sessions'[gut'[c].sid] /= 0
              /\ heap'[user_sessions'[gut'[c].sid]] = SessionOf(gut'[c].sid)
        /\ (/\ gut[c].pc = "await_refresh" /\ gut'[c].pc /= "await_refresh"
            /\ gut'[c].resp.kind = "ok") =>
              /\ gut'[c].pc = "returned"
              /\ gut'[c].ret = gut'[c].resp.token
              /\ user_sessions'[gut'[c].sid] /= 0
              /\ heap'[user_sessions'[gut'[c].sid]].access_token = gut'[c].resp.token
              /\ heap'[user_sessions'[gut'[c].sid]].expires_at =
                    now + ExpiresInOrDefault(gut'[c].resp.expires_in)
                        - BufferSeconds]_vars

\* C4 witness: one caller was served the stored token, another one has just
\* been given a token by a successful refresh, now the stored one
C4_Witness ==
    \E c, d \in Callers :
        /\ gut[c].pc = "returned" /\ gut[c].posts = 0
        /\ gut[d].pc = "returned" /\ gut[d].posts = 1
        /\ gut[d].resp.kind = "ok"
        /\ user_sessions[gut[d].sid] /= 0
        /\ SessionOf(gut[d].sid).access_token = gut[d].ret

\* C5: the result of perform_combined_search has at most 20 entries and no
\* two of them have the same id, whatever the upstream answered.
C5_AtMostTwentyDistinct ==
    /\ Len(search.final_results) <= 20
    /\ \A i, j \in 1..Len(search.final_results) :
          i /= j => search.final_results[i].id /= search.final_results[j].id

\* C5 witness: a search has returned 20 results out of more than 20 it had
\* collected, and a title result's id was also among the keyword results
C5_Witness ==
    /\ search.pc = "done"
    /\ Len(search.all_results) > 20
    /\ Len(search.final_results) = 20
    /\ \E i \in 1..Len(search.keyword_results) :
          HasId(search.title_results, search.keyword_results[i].id)

\* the places of a list of results where an id occurs for the first time
FirstPlaces(results) ==
    {i \in 1..Len(results) :
        \A j \in 1..(i - 1) : results[j].id /= results[i].id}

\* the k-th smallest element of a set of places
Nth(places, k) ==
    CHOOSE i \in places : Cardinality({j \in places : j < i}) = k - 1

\* the last result of a list that has the id
LastWithId(results, doc_id) ==
    results[CHOOSE i \in 1..Len(results) :
                /\ results[i].id = doc_id
                /\ \A j \in (i + 1)..Len(results) : results[j].id /= doc_id]

\* a list of results with each id once, at the place of its first result and
\* with the value of its last one
OncePerId(results) ==
    [k \in 1..Cardinality(FirstPlaces(results)) |->
        LastWithId(results, results[Nth(FirstPlaces(results), k)].id)]

\* the results of a list whose id is not in another list, each id once
NewIn(results, others) ==
    [k \in 1..Cardinality({i \in FirstPlaces(results) :
                              ~HasId(others, results[i].id)}) |->
        results[Nth({i \in FirstPlaces(results) :
                        ~HasId(others, results[i].id)}, k)]]

\* C6 as stated: the result is the title results in upstream order followed
\* by the keyword results whose id is not among the title results.
C6_TitleThenKeyword ==
    search.pc = "done" =>
        search.final_results =
            search.title_results
                \o SelectSeq(search.keyword_results,
                     LAMBDA r : ~HasId(search.title_results, r.id))

\* C6 amended: the result is the first 20 of the title results, each id
\* once, followed by the keyword results whose id is not among the title
\* results, each id once; a document in both lists is there once, with
\* search_type "title"; when both lists are empty the result is the first 20
\* of the fallback pass's results, each id once.
C6_TitleThenNewKeyword ==
    search.pc = "done" =>
        /\ search.final_results =
              Take(IF search.fallback
                   THEN OncePerId(search.fallback_results)
                   ELSE OncePerId(search.title_results)
                           \o NewIn(search.keyword_results,
                                    search.title_results), 20)
        /\ \A i \in 1..Len(search.final_results) :
              HasId(search.title_results, search.final_results[i].id)
                  => search.final_results[i].search_type = "title"

\* C6 witness: a search has returned title results, one id of which occurred
\* twice upstream and one of which was also a keyword result, followed by
\* keyword results
C6_Witness ==
    /\ search.pc = "done"
    /\ Cardinality(FirstPlaces(search.title_results))
          < Len(search.title_results)
    /\ \E i \in 1..Len(search.keyword_results) :
          HasId(search.title_results, search.keyword_results[i].id)
    /\ \E i \in 1..Len(search.final_results) :
          search.final_results[i].search_type = "keyword"

\* C7: when no request of the title search, the keyword search and the
\* fallback pass is answered with a usable 200, perform_combined_search
\* returns the empty list, and it never raises.
C7_DegradesToEmpty ==
    /\ search.pc /= "raised"
    /\ (search.pc = "done" /\ ~search.answered) => search.final_results = <<>>

\* C7 witness: every get_token of a search returned, so that the title and
\* the keyword search sent all their requests, the fallback pass tried all
\* its shapes, none was answered with a usable 200, and the search returned
\* the empty list
C7_Witness ==
    /\ search.pc = "done"
    /\ ~search.answered
    /\ ~search.auth_failed
    /\ search.fallback
    /\ search.tried = params_options
    /\ search.final_results = <<>>

\* the upstream of C8: every get_token returned, every POST was answered 400
\* and every GET name=<query> was answered 200 with the same documents
Mock400(docs) ==
    /\ search.pc = "done"
    /\ ~search.auth_failed
    /\ search.posts_400
    /\ ~search.name_failed
    /\ search.name_docs = {docs}

\* C8 as stated: against that upstream the search returns exactly the
\* documents of the GET, each with search_type "title".
C8_FallbackGetDocuments ==
    \A docs \in DocLists :
        Mock400(docs) => search.final_results = Results(docs, "title")

\* C8 amended: against that upstream the search returns the first 10
\* (limit_per_type) documents of the GET, each id once, and every result has
\* search_type "title".
C8_FallbackGetFirstTen ==
    \A docs \in DocLists :
        Mock400(docs) =>
            /\ search.final_results =
                  OncePerId(Take(Results(docs, "title"), 10))
            /\ \A i \in 1..Len(search.final_results) :
                  search.final_results[i].search_type = "title"

\* C8 witness: against that upstream, answering with more than 10
\* documents, a search has returned 10 results
C8_Witness ==
    \E docs \in DocLists :
        /\ Mock400(docs)
        /\ Len(docs) > 10
        /\ Len(search.final_results) = 10

\* C9 as stated: fetch_document_content never raises, and returns a bundle
\* whose text explains the failure.
C9_NeverRaises ==
    /\ fetch.pc /= "raised"
    /\ (fetch.pc = "returned" /\ fetch.failure /= None) =>
          fetch.bundle.content \in
              {"fetch_failed", "download_failed", "processing_error"}

\* C9 amended: fetch_document_content raises only when get_token fails, and
\* then the 401 error of get_token; a failure of the metadata GET, of the
\* download GET or of the text extraction is returned as a bundle for the
\* requested id whose text tells the failure.
C9_RaisesOnlyWithoutToken ==
    /\ fetch.pc = "raised" => fetch.failure = "get_token" /\ fetch.status = 401
    /\ (fetch.pc /= "idle" /\ fetch.failure = "get_token") =>
          fetch.pc = "raised"
    /\ (fetch.pc /= "idle" /\ fetch.failure \notin {None, "get_token"}) =>
          /\ fetch.pc = "returned"
          /\ fetch.bundle.id = fetch.doc_id
          /\ fetch.bundle.len > 0 \/ fetch.failure = "metadata"
          /\ fetch.bundle.content =
                CASE fetch.failure = "metadata" -> "fetch_failed"
                  [] fetch.failure = "download" -> "download_failed"
                  [] fetch.failure = "extraction" -> "processing_error"

\* C9 witness: a fetch whose download succeeded and whose text extraction
\* failed has returned the bundle with the extractor's error
C9_Witness ==
    /\ fetch.pc = "returned"
    /\ fetch.download_status = 200
    /\ fetch.failure = "extraction"
    /\ fetch.bundle.content = "processing_error"

\* C10: when the metadata GET is answered 404 or another non-2xx status,
\* fetch returns a bundle whose id is the requested id and whose text starts
\* with "Failed to fetch document", and the download GET is not sent.
C10_MetadataFailureBundle ==
    fetch.metadata_status \in {404, 500} =>
        /\ fetch.pc = "returned"
        /\ fetch.bundle.id = fetch.doc_id
        /\ fetch.bundle.head = "Failed to fetch document"
        /\ \A i \in 1..Len(fetch.requests) : fetch.requests[i] /= "download"

\* C10 witness: a fetch whose metadata GET was answered 404 has returned
C10_Witness ==
    /\ fetch.pc = "returned"
    /\ fetch.metadata_status = 404
    /\ fetch.bundle.id = fetch.doc_id
    /\ fetch.requests = <<"metadata">>

\* C11: a request whose method the handler has no branch for, and a
\* tools/call whose params are an object and whose tool name is neither
\* "search" nor "fetch", is answered with the error -32601 under the id of
\* the request, and the handler calls neither the search nor the fetch.
C11_UnknownIsMethodNotFound ==
    LET unknown ==
            /\ mcp.body.kind = "object"
            /\ \/ mcp.body.method \notin SupportedMethods(mcp.handler)
               \/ /\ mcp.body.method = "tools/call"
                  /\ mcp.body.params = "object"
                  /\ mcp.body.name \notin {"search", "fetch"}
    IN  (mcp.pc /= "idle" /\ unknown) =>
            /\ mcp.pc = "responded"
            /\ ~mcp.awaited
            /\ search.pc = "idle" /\ fetch.pc = "idle"
            /\ mcp.response.kind = "error"
            /\ mcp.response.code = -32601
            /\ mcp.response.has_id
            /\ mcp.response.id = mcp.body.id

C11_Witness ==
    /\ mcp.pc = "responded"
    /\ mcp.body.kind = "object"
    /\ mcp.body.method = "tools/call"
    /\ mcp.body.name = "unknown_tool"
    /\ mcp.body.arg \in DocIds
    /\ mcp.body.id = 0
    /\ mcp.response.code = -32601
    /\ mcp.response.id = 0

\* C12: for every request body the handler returns a JSON-RPC envelope and
\* no exception leaves it: the error -32700 for a body that is not JSON,
\* the error -32603 for any other exception, a JSON body that is no object
\* included.
C12_NoExceptionEscapes ==
    mcp.pc = "responded" =>
        /\ mcp.response.kind /= "escaped"
        /\ mcp.body.kind = "invalid_json" =>
              mcp.response.kind = "error" /\ mcp.response.code = -32700
        /\ mcp.body.kind = "not_object" =>
              mcp.response.kind = "error" /\ mcp.response.code = -32603

\* C13: the response to a request that carries an id is an envelope with
\* the same id, whatever the method and the id, 0 included.
C13_ResponseCarriesRequestId ==
    (/\ mcp.pc = "responded"
     /\ mcp.body.kind = "object"
     /\ mcp.body.id /= Absent) =>
        /\ mcp.response.kind \in {"result", "error"}
        /\ mcp.response.has_id
        /\ mcp.response.id = mcp.body.id

\* C14: a tools/call of "search" with a non-empty query calls the search
\* and is answered with a result holding the results; a tools/call of
\* "fetch" with a non-empty id calls the fetch and is answered with a
\* result holding the bundle.
C14_ToolCallInvokesService ==
    (/\ mcp.pc = "responded"
     /\ mcp.body.kind = "object"
     /\ mcp.body.method = "tools/call"
     /\ mcp.body.params = "object"
     /\ mcp.body.arguments = "object"
     /\ mcp.body.name \in {"search", "fetch"}
     /\ mcp.body.arg /= 0) =>
        /\ mcp.awaited
        /\ mcp.response.kind = "result"
        /\ mcp.body.name = "search" =>
              mcp.response.payload \in {"results", "no_documents"}
        /\ mcp.body.name = "fetch" =>
              /\ mcp.response.payload = "bundle"
              /\ mcp.response.bundle.id = mcp.body.arg

\* C15: a tools/call of search or fetch handled while the service has not
\* been able to obtain an upstream token is answered with an error, not
\* with a result.
C15_AuthFailureIsError ==
    (/\ mcp.pc = "responded"
     /\ mcp.awaited
     /\ token_cache.token = None) =>
        mcp.response.kind = "error"

\* C16: the token endpoint answers the authorization_code grant with a
\* bearer token only for a code minted for a completed exchange, so only
\* after some callback has completed an exchange.
C16_TokenOnlyForMintedCode ==
    (/\ relay.pc = "responded"
     /\ relay.response.endpoint = "token"
     /\ relay.response.grant_type = "authorization_code"
     /\ relay.response.kind = "json") =>
        relay.completed

\* C17: a callback whose state is known and unexpired and whose code the
\* provider accepts is answered with a redirect to the redirect_uri the
\* agent gave to /oauth/authorize, with a minted code and the agent's state.
C17_CallbackRedirectsToAgent ==
    (/\ relay.pc = "responded"
     /\ relay.response.endpoint = "callback"
     /\ relay.response.inner = 200) =>
        /\ relay.response.kind = "redirect"
        /\ relay.response.target = "agent_redirect_uri"

\* C18: a callback whose state is unknown, consumed or expired is answered
\* with an HTML page of status 400 and creates no user session.
C18_InvalidStateIsBadRequest ==
    (/\ relay.pc = "responded"
     /\ relay.response.endpoint = "callback"
     /\ relay.response.detail = "invalid_state") =>
        /\ relay.response.kind = "html"
        /\ relay.response.status = 400
        /\ relay.response.sid = 0

\* C19: in user mode, the token resolution of a request that names a missing
\* session, or an expired one whose refresh fails or is impossible, fails
\* with the status 401 and yields no upstream token.
C19_FailedSessionYieldsNoToken ==
    (/\ resolve.pc \in {"returned", "raised"}
     /\ is_user_auth_enabled(relay.AUTH_MODE)
     /\ resolve.session /= NoSession
     /\ resolve.user_failed) =>
        /\ resolve.pc = "raised"
        /\ resolve.status = 401
        /\ resolve.ret = None

\* C20: in user mode, the fetch for a request that carries an authenticated
\* session sends the access token of that session upstream.
C20_UserTokenUpstream ==
    LET obj == user_sessions[mcp.session]
    IN  (/\ mcp.pc = "fetch"
         /\ fetch.pc \in {"await_metadata", "await_download"}
         /\ is_user_auth_enabled(relay.AUTH_MODE)
         /\ mcp.session /= NoSession
         /\ obj /= 0
         /\ TokenStillValid(heap[obj], now)) =>
            fetch.token = heap[obj].access_token

\* C21: a get_token call whose POST fails by a transport error, a non-2xx
\* status or a body without access_token raises the 401 error after its one
\* POST, sends no further one, and leaves the cached token and expiry as
\* they were.
C21_NoRetryCacheUnchanged ==
    [][\A c \in Callers :
        /\ (/\ gt[c].pc = "await_post" /\ gt'[c].pc /= "await_post"
            /\ gt'[c].resp.kind \in {"transport_error", "http_error",
                                     "no_access_token"}) =>
              /\ gt'[c].pc = "raised"
              /\ gt'[c].status = 401
              /\ gt'[c].posts = 1
              /\ token_cache' = token_cache
        /\ gt[c].pc = "raised" => gt'[c].pc \in {"raised", "idle"}]_vars

\* C21 witness: a call has failed on a non-2xx answer while an expired token
\* is still in the cache
C21_Witness ==
    \E c \in Callers :
        /\ gt[c].pc = "raised"
        /\ gt[c].resp.kind = "http_error"
        /\ gt[c].posts = 1
        /\ token_cache.token /= None
        /\ now >= token_cache.expires

\* C22: a successful authenticate_with_oauth_code stores the new session
\* under a newly generated session id, so not under the session id its
\* state was issued for before the exchange.
C22_StoredUnderNewSessionId ==
    [][(ex.pc = "await_token" /\ ex'.pc = "returned") =>
          /\ user_sessions'[ex.sid] = user_sessions[ex.sid]
          /\ ex'.sid /= ex.sid]_vars

\* C23: authenticate_with_oauth_code with a state that is not in the state
\* map, or whose entry has expired, raises the invalid-state error without
\* awaiting the provider and leaves the session store as it was.
C23_InvalidStateFailsEarly ==
    [][/\ (/\ ex.pc = "idle" /\ ex'.pc /= "idle"
           /\ \/ oauth_states[ex'.state] = NoEntry
              \/ now > oauth_states[ex'.state].expires_at) =>
             /\ ex'.pc = "raised"
             /\ ex'.status = 400
             /\ ex'.detail = "invalid_state"
             /\ user_sessions' = user_sessions
             /\ heap' = heap
       /\ (ex.pc = "raised" /\ ex.detail = "invalid_state") =>
             ex'.pc \in {"raised", "idle"}]_vars

\* C23 witness: the exchange has failed on an issued state that expired
\* unused, while the store holds a session
C23_Witness ==
    /\ ex.pc = "raised"
    /\ ex.detail = "invalid_state"
    /\ ex.state \in issued
    /\ ~ex.again
    /\ \E sid \in SessionIds : user_sessions[sid] /= 0

\* C24: logout_user returns true and removes the session when it is
\* present, returns false and changes nothing when it is absent, leaves the
\* other sessions and the OAuth states as they were, and called again with
\* the same session id it returns false and leaves the store as it is.
C24_LogoutIdempotent ==
    [][Len(probe'.rets) = Len(probe.rets) + 1 =>
         LET n == Len(probe'.rets)
             session_id == probe'.session_ids[n]
             before == probe'.before
             after == probe'.manager
         IN  /\ before = probe.manager
             /\ before.user_sessions[session_id] /= 0 =>
                   probe'.rets[n] /\ after.user_sessions[session_id] = 0
             /\ before.user_sessions[session_id] = 0 =>
                   ~probe'.rets[n] /\ after = before
             /\ \A k \in ProbeKeys \ {session_id} :
                   after.user_sessions[k] = before.user_sessions[k]
             /\ after.oauth_states = before.oauth_states
             /\ (n > 1 /\ probe.session_ids[n - 1] = session_id) =>
                   ~probe'.rets[n] /\ after = before]_vars

\* C24 witness: a session was logged out and logged out again, beside
\* another session and an OAuth state
C24_Witness ==
    /\ probe.function = "logout_user"
    /\ Len(probe.rets) = 2
    /\ probe.session_ids[1] = probe.session_ids[2]
    /\ probe.rets = <<TRUE, FALSE>>
    /\ \E k \in ProbeKeys : probe.manager.user_sessions[k] /= 0
    /\ \E state \in StateTokens : probe.manager.oauth_states[state] /= NoEntry

\* C25: process_document_content raises for no content type, file name and
\* bytes, whichever libraries are imported: it returns a string, and when
\* the try block of a format extractor raised, that string is the
\* extractor's error description.
C25_ExtractNeverRaises ==
    probe.function = "process_document_content" /\ probe.called =>
        /\ probe.out.returns \in {"text", "notice", "error", "unsupported"}
        /\ probe.out.failed => probe.out.returns = "error"

\* C25 witness: the PDF extractor has been given corrupt bytes with its
\* libraries imported, and has answered with its error description
C25_Witness ==
    /\ probe.function = "process_document_content"
    /\ probe.called
    /\ probe.missing = 0
    /\ probe.content = "corrupt"
    /\ probe.out.branch = "pdf"
    /\ probe.out.failed
    /\ probe.out.returns = "error"

\* C26: search_documents_simple tries the request shapes in the order
\* name, anywhere, title, body, q, and the first shape answered with HTTP
\* status 200 wins: no later shape is requested.
C26_First200Wins ==
    [][search.pc = "simple_get" =>
          /\ search'.pc = "simple_get" =>
                search'.tried = Take(params_options, Len(search'.tried))
          /\ search'.pc = "simple_get" => ~search'.last_200]_vars

\* the query type whose search is running, and the list it ended with
Pass(s) ==
    CASE s.pc \in {"title_token", "title_post"} -> "title"
      [] s.pc \in {"keyword_token", "keyword_post"} -> "keyword"
      [] s.pc \in {"simple_token", "simple_get"} ->
            IF s.caller \in {"title_400", "title_except"}
            THEN "title" ELSE s.caller
      [] OTHER -> None
PassResults(s, type) ==
    CASE type = "title" -> s.title_results
      [] type = "keyword" -> s.keyword_results
      [] type = "fallback" -> s.fallback_results
      [] OTHER -> <<>>

\* C27: an answer with HTTP status 200 whose body is empty or not valid
\* JSON counts as zero results: the search of that query type ends with an
\* empty list, and raises nothing.
C27_Unparsed200IsZeroResults ==
    [][search.unparsed_200 /\ Pass(search') /= Pass(search) =>
          /\ search'.pc /= "raised"
          /\ PassResults(search', Pass(search)) = <<>>]_vars

\* the cache entry that the response a get_token call received gives
CacheOf(call) ==
    [token |-> call.resp.token,
     expires |-> call.at - BufferSeconds
                 + (IF call.resp.expires_in = Absent
                    THEN DefaultExpiresIn ELSE call.resp.expires_in)]

\* C28: however get_token calls that missed the cache and were suspended at
\* the POST interleave, each returns the token of the response it received
\* itself, and once all of them have returned the cache holds the token and
\* the expiry of one and the same response.
C28_ConcurrentMissesConsistent ==
    /\ \A c \in Callers :
          gt[c].pc = "returned" /\ gt[c].posts = 1 =>
              gt[c].ret = gt[c].resp.token
    /\ (\A c \in Callers : gt[c].pc = "returned" /\ gt[c].posts = 1) =>
          \E c \in Callers : token_cache = CacheOf(gt[c])

\* C28 witness: two calls have returned different tokens; each token lives
\* for longer than the clock can advance, so the second call missed the
\* cache before the first response was stored
C28_Witness ==
    \E c, d \in Callers :
        /\ c /= d
        /\ \A e \in Callers : gt[e].pc = "returned" /\ gt[e].posts = 1
        /\ gt[c].resp.expires_in = Absent /\ gt[d].resp.expires_in = Absent
        /\ gt[c].ret = "tokA" /\ gt[d].ret = "tokB"
        /\ gt[c].at < gt[d].at
        /\ token_cache = CacheOf(gt[d])

\* C29: however get_user_token calls on one session with an expired token
\* interleave once they are suspended in the refresh-token grant, each
\* returns the refreshed access token or fails with the session-expired
\* 401 error: no other exception leaves a call.
C29_RefreshEndsInTokenOr401 ==
    \A c, d \in Callers :
        (/\ c /= d
         /\ gut[c].sid = gut[d].sid
         /\ gut[c].posts = 1 /\ gut[c].pc \in {"returned", "raised"}
         /\ gut[d].posts = 1 /\ gut[d].pc \in {"returned", "raised"}) =>
            \/ gut[c].pc = "returned" /\ gut[c].ret = gut[c].resp.token
            \/ /\ gut[c].pc = "raised"
               /\ gut[c].status = 401
               /\ gut[c].detail = "session_expired"

\* C30: once logout_user has returned true for a session id, or
\* cleanup_expired_sessions has removed its session, the id stays absent
\* from the store until an authentication stores a session under it, also
\* when a get_user_token call was suspended in the refresh of that session.
C30_RemovedStaysAbsent ==
    \A c \in Callers :
        gut[c].removed /\ gut[c].pc \in {"returned", "raised"} =>
            user_sessions[gut[c].sid] = 0

\* C31: once the callback has completed a flow, no OAuth-state entry of
\* that flow remains; and an entry of a flow that was aborted is gone from
\* oauth_states when its 10 minutes have passed.
C31_NoStateLeftBehind ==
    /\ (relay.response.endpoint = "callback" /\ relay.response.status = 200) =>
          /\ relay.entries[relay.response.sid] = NoRelayEntry
          /\ \A state \in StateTokens :
                oauth_states[state].session_id /= relay.response.sid
    /\ \A sid \in SessionIds :
          relay.entries[sid] /= NoRelayEntry =>
              now <= relay.entries[sid].expires_at

\* C32: the redirect of /oauth/authorize goes to the iManage authorize
\* endpoint and carries, as its state parameter, the session id under which
\* the agent's redirect_uri and state were stored.
C32_StateParamIsSessionId ==
    (relay.response.endpoint = "authorize"
     /\ relay.response.kind = "redirect") =>
        /\ relay.response.target = "imanage"
        /\ relay.entries[relay.response.sid] /= NoRelayEntry
        /\ StateToken(relay.response.state)
              = SessionIdToken(relay.response.sid)

\* C33: an OAuth state is recorded with expires_at = time of issue + 600;
\* its validation succeeds exactly while now <= expires_at, and a
\* validation after expires_at fails and removes the state.
C33_StateLivesTenMinutes ==
    [][/\ \A state \in StateTokens :
            (oauth_states[state] = NoEntry /\ oauth_states'[state] /= NoEntry)
                => oauth_states'[state].expires_at = now + 600
       /\ (ex.pc = "idle" /\ ex'.pc /= "idle"
           /\ oauth_states[ex'.state] /= NoEntry) =>
             /\ now <= oauth_states[ex'.state].expires_at =>
                   /\ ex'.pc = "await_token"
                   /\ ex'.sid = oauth_states[ex'.state].session_id
             /\ now > oauth_states[ex'.state].expires_at =>
                   /\ ex'.pc = "raised"
                   /\ ex'.detail = "invalid_state"
             /\ oauth_states'[ex'.state] = NoEntry]_vars

\* C33 witness: a state issued at time 0 has been validated at time 600,
\* the last moment of its life, and the code exchange is under way
C33_Witness ==
    /\ ex.pc = "await_token"
    /\ ex.sid /= 0
    /\ now = StateTTL
    /\ issued = {ex.state}
    /\ ~ex.again

\* C34: cleanup_expired_sessions removes exactly the sessions with
\* now > expires_at and exactly the OAuth states with now > expires_at and
\* leaves every other session and state as it was; it removes no session
\* whose access token get_user_token would still return without a refresh.
C34_SweepRemovesExactlyExpired ==
    (probe.function = "cleanup_expired_sessions" /\ probe.called) =>
        LET before == probe.before
            after == probe.manager
            t == probe.time
        IN  /\ \A k \in ProbeKeys :
                  after.user_sessions[k] =
                      IF before.user_sessions[k] /= NoObj
                         /\ t > before.user_sessions[k].expires_at
                      THEN NoObj ELSE before.user_sessions[k]
            /\ \A state \in StateTokens :
                  after.oauth_states[state] =
                      IF before.oauth_states[state] /= NoEntry
                         /\ t > before.oauth_states[state].expires_at
                      THEN NoEntry ELSE before.oauth_states[state]
            /\ \A k \in ProbeKeys :
                  (before.user_sessions[k] /= NoObj
                   /\ t < before.user_sessions[k].expires_at) =>
                      after.user_sessions[k] = before.user_sessions[k]

\* C34 witness: the sweep has removed one session and kept another one
\* that expires at the very time of the sweep, and it has removed an
\* entry of oauth_authorize
C34_Witness ==
    /\ probe.function = "cleanup_expired_sessions"
    /\ probe.called
    /\ \E k, j \in ProbeKeys :
          /\ probe.before.user_sessions[k] /= NoObj
          /\ probe.manager.user_sessions[k] = NoObj
          /\ probe.before.user_sessions[j].expires_at = probe.time
          /\ probe.manager.user_sessions[j] /= NoObj
    /\ \E state \in StateTokens :
          /\ probe.before.oauth_states[state] /= NoEntry
          /\ "redirect_uri" \in DOMAIN probe.before.oauth_states[state]
          /\ probe.manager.oauth_states[state] = NoEntry

\* the lifetime the code takes from a token response
Lifetime(expires_in) == IF expires_in = Absent THEN 1800 ELSE expires_in

\* C35: a stored expiry carries the 60-second buffer: a successful service
\* authentication leaves the cache with expires = time of storing +
\* expires_in - 60, expires_in being 1800 when the response has none, and
\* so does every creation and every successful refresh of a user session
\* with the session's expires_at.
C35_ExpiryCarriesBuffer ==
    [][/\ \A c \in Callers :
            (gt[c].pc = "await_post" /\ gt'[c].pc = "returned") =>
                token_cache'.expires
                    = now + Lifetime(gt'[c].resp.expires_in) - 60
       /\ \A c \in Callers :
            (gut[c].pc = "await_refresh" /\ gut'[c].pc = "returned") =>
                StoredSessions'[gut'[c].sid].expires_at
                    = now + Lifetime(gut'[c].resp.expires_in) - 60
       /\ \A sid \in SessionIds :
            (/\ StoredSessions'[sid] /= NoObj
             /\ StoredSessions'[sid] /= StoredSessions[sid]
             /\ \A c \in Callers :
                    ~(gut[c].pc = "await_refresh" /\ gut'[c].pc = "returned"))
                =>
                \E expires_in \in UserExpiresIns :
                    StoredSessions'[sid].expires_at
                        = now + Lifetime(expires_in) - 60]_vars

\* C35 witness: the service token of a response without expires_in has
\* just been cached, after a user session was refreshed with a lifetime of
\* 60 seconds and is stored with the expiry the refresh gave it
C35_Witness ==
    /\ gt[Resolver].pc = "returned"
    /\ gt[Resolver].posts = 1
    /\ gt[Resolver].resp.expires_in = Absent
    /\ token_cache.expires = gt[Resolver].at + 1740
    /\ resolve.user_failed = FALSE
    /\ \E sid \in SessionIds :
          /\ StoredSessions[sid] /= NoObj
          /\ StoredSessions[sid].access_token = "tokB"

\* C36: when authenticate_with_oauth_code has validated its state and the
\* provider rejects the authorization-code grant, the call fails with the
\* 401 error, the session store is as before, and the state is consumed:
\* the same call with the same state fails with the invalid-state error.
C36_RejectedGrantConsumesState ==
    [][/\ (ex.pc = "await_token" /\ ex'.pc = "raised") =>
             /\ ex'.status = 401
             /\ ex'.detail = "oauth_failed"
             /\ user_sessions' = user_sessions
             /\ heap' = heap
             /\ oauth_states'[ex.state] = NoEntry
             /\ ex.state \in consumed'
       /\ (ex.pc = "idle" /\ ex'.pc /= "idle" /\ ex'.state \in consumed) =>
             /\ ex'.pc = "raised"
             /\ ex'.status = 400
             /\ ex'.detail = "invalid_state"]_vars

\* C36 witness: the provider has rejected the grant of an exchange whose
\* state was valid; the state is gone from the state map
C36_Witness ==
    /\ ex.pc = "raised"
    /\ ex.detail = "oauth_failed"
    /\ ex.sid /= 0
    /\ ex.state \in consumed
    /\ oauth_states[ex.state] = NoEntry

\* C37: one perform_combined_search sends at most one credential POST to
\* the identity provider, whatever the token cache holds and whether or
\* not the authentication succeeds.
C37_OneCredentialPostPerSearch ==
    search.auth_posts <= 1

\* C38: in the bundle fetch_document_content returns after a successful
\* metadata GET, download_success is true exactly when the download GET
\* returned a success status, with or without the extraction libraries.
C38_DownloadFlagFollowsStatus ==
    (fetch.pc = "returned" /\ fetch.download_status /= Absent)
        => (fetch.bundle.download_success
                <=> ~(fetch.download_status = 0
                        \/ RaiseForStatus(fetch.download_status)))

\* C39: whenever the download GET of a fetch fails, the returned bundle
\* does not report the extraction as succeeded, for every length of the
\* download error message.
C39_FailedDownloadNotExtracted ==
    (/\ fetch.pc = "returned"
     /\ fetch.download_status /= Absent
     /\ (fetch.download_status = 0 \/ RaiseForStatus(fetch.download_status)))
        => ~fetch.bundle.text_extracted

\* the numbers of the non-blank rows of a sheet, in their order
DataRows(rows) ==
    SelectSeq([i \in 1..Len(rows) |-> i], LAMBDA i : ~rows[i])

\* C40: for a sheet, extract_text_from_excel emits at most the first 100
\* non-blank rows, blank rows being skipped without counting toward the
\* cap, and appends the truncation marker exactly when the sheet has more
\* than 100 non-blank rows.
C40_FirstHundredDataRows ==
    (probe.function = "extract_text_from_excel" /\ probe.pc = "sheet_done")
        => LET data == DataRows(IterRows(probe.sheet))
               shown == IF Len(data) > RowLimit THEN RowLimit ELSE Len(data)
           IN  /\ probe.sheet_data = SubSeq(data, 1, shown)
               /\ probe.truncated <=> Len(data) > RowLimit

====
